---- MODULE Spec2Model ----
(***************************************************************************)
(* A model of the cdoc document compiler: the delimiter scanner of         *)
(* cdoc/src/ast/mod.rs, the process-wide id counter and the shortcode      *)
(* rendering of cdoc/src/renderers.                                        *)
(*                                                                         *)
(* Texts are sequences of one-character strings.  Positions are the byte   *)
(* offsets of the Rust code (0-based); the character at offset i of s is   *)
(* s[i + 1].  All characters are ASCII, so every offset is a character     *)
(* boundary.                                                               *)
(***************************************************************************)
EXTENDS Integers, Sequences, FiniteSets, TLC

VARIABLES
    \* ---- delimiter scanner (cdoc/src/ast/mod.rs) ----
    text,       \* the source text handed to the scanner
    pc,         \* position of the scanner's control
    res,        \* find_all_blocks: the spans found so far
    fab_offset, \* find_all_blocks: offset of rest within the text
    offset,     \* shortcode scanning: offset of the text still to scan
    start,      \* extract_*: offset of the opening delimiter (within rest)
    end,        \* extract_inline: last }} seen; extract_block: %} of the opening tag
    level,      \* extract_*: nesting level
    cur_start,  \* extract_*: the cursor
    end_block,  \* extract_block: the last {% end seen
    result,     \* the value find_shortcode returned (or the abort)
    found,      \* the shortcodes reported for the text, absolute offsets
    \* ---- the id counter (cdoc/src/renderers/generic.rs) ----
    COUNTER,    \* static COUNTER: AtomicUsize
    ids,        \* the values get_id returned to each render thread, in order
    \* ---- tree building and shortcode rendering ----
    counters,   \* tree builder: shortcode name -> the next num of that name
    ast,        \* the shortcodes of the document, in document order
    parsed,     \* the tree is built
    rfmt,       \* the format of the render call in progress
    rstatus,    \* "idle", "running", or what render_doc returned: "ok" / "err"
    ridx,       \* the number of shortcodes the render call has rendered
    rerr,       \* the error the render call returned
    buf,        \* the output written by the render call
    tmpl_calls, \* the shortcode templates rendered by the render call, with their context
    \* ---- the markdown renderer (cdoc/src/renderers/markdown.rs) ----
    md_doc,     \* the content of the document: a Vec<Block>
    md_pos,     \* the number of blocks of the content rendered so far
    list_idx,   \* ToMarkdownContext.list_idx
    list_lvl,   \* ToMarkdownContext.list_lvl
    md_out,     \* the markdown written so far
    md_lists,   \* for every list rendered: the list state before and after it
    md_items,   \* for every list item rendered: what it was rendered with
    \* ---- elements to blocks (cdoc/src/document.rs) ----
    elements,   \* RawContent: the elements of a document
    el_pos,     \* the number of elements converted so far
    converted,  \* for every element converted: the blocks it gave
    blocks,     \* the Ast collected so far
    \* ---- notebook cells to elements (cdoc/src/document.rs) ----
    cells,        \* Notebook.cells
    nb_pos,       \* the number of cells the fold has taken
    nb_num,       \* fold: the accumulated number
    nb_acc,       \* fold: the accumulated pairs (number, cell)
    nb_elements,  \* Returned(the RawContent), None until the conversion returns
    \* ---- the templated renderer and the rendered document (cdoc/src/renderers/generic.rs) ----
    gen_doc,      \* the Document<Ast> handed to a renderer
    gen_fmt,      \* ctx.format
    gen_op,       \* the operation that returned: render_doc, render or map
    gen_ret,      \* what it returned: Returned(a document) or Failed(an error)
    gen_log,      \* for every node the templated renderer met: what its arm wrote
    \* ---- parallel processing (src/pipeline/mod.rs) ----
    project,      \* process_all: the documents of the project, each with what process_document makes of it
    task_pc,      \* the position of the task of each document
    task_res,     \* the content each task ended with
    errs,         \* the errors behind the mutex
    errs_guard,   \* the task that holds the lock of errs, 0 if none does
    processed,    \* what process_all returned: Returned(<<res, errs>>)
    \* ---- cell-output preprocessor (crates/cdoc/src/preprocessors/cell_outputs.rs) ----
    co_input,     \* the document handed to CellProcessor::process
    co_ret        \* what process returned: Returned(document)

scanVars == <<text, pc, res, fab_offset, offset, start, end, level, cur_start,
              end_block, result, found>>
idVars == <<COUNTER, ids>>
docVars == <<counters, ast, parsed, rfmt, rstatus, ridx, rerr, buf, tmpl_calls>>

mdVars == <<md_doc, md_pos, list_idx, list_lvl, md_out, md_lists, md_items>>

elVars == <<elements, el_pos, converted, blocks>>

nbVars == <<cells, nb_pos, nb_num, nb_acc, nb_elements>>

genVars == <<gen_doc, gen_fmt, gen_op, gen_ret, gen_log>>

paVars == <<project, task_pc, task_res, errs, errs_guard, processed>>

coVars == <<co_input, co_ret>>

vars == <<scanVars, idVars, docVars, mdVars, elVars, nbVars, genVars, paVars, coVars>>

-----------------------------------------------------------------------------
(* Bounds of the model. *)

\* The longest text, in tokens, the scanner is run on.
MaxTokens == 4

-----------------------------------------------------------------------------
(* Texts. *)

LL == <<"{", "{">>
RR == <<"}", "}">>
LP == <<"{", "%">>
PR == <<"%", "}">>
\* A closing keyword that holds the name of the block.
END_KW_A == <<"{", "%", " ", "e", "n", "d", "_", "a">>

END_KW == <<"{", "%", " ", "e", "n", "d">>
\* The backtick; it is written "~" here, as a TLA+ string cannot hold one.
TICK == <<"~">>
TICK3 == <<"~", "~", "~">>

\* The pieces texts are built from: the four delimiters, one byte
\* of plain text, a backtick, an opening block tag and two closing tags (the
\* shortest one, {% end%}, and one with a name, {% end_a %}).
Tokens ==
    { LL, RR, <<"x">>, TICK,
      <<"{", "%", " ", "a", " ", "%", "}">>,
      <<"{", "%", " ", "e", "n", "d", "_", "a", " ", "%", "}">>,
      <<"{", "%", " ", "e", "n", "d", "%", "}">> }

RECURSIVE Concat(_)
Concat(toks) == IF toks = <<>> THEN <<>> ELSE Head(toks) \o Concat(Tail(toks))

TokenSeqs == UNION { [1..n -> Tokens] : n \in 0..MaxTokens }

Texts == { Concat(ts) : ts \in TokenSeqs }

\* Option<usize>::None, and the values of Option<ShortcodeIdx> / an abort.
NoIdx == -1
None == [kind |-> "None"]
Panic == [kind |-> "Panic"]
\* An inline result that ends behind the closing delimiter.
InlineIdxBehind(s, e) == [kind |-> "Inline", start |-> s, end |-> e + 2]
InlineIdx(s, e) == [kind |-> "Inline", start |-> s, end |-> e]
BlockIdx(ds, de, es, ee) == [kind |-> "Block", def |-> <<ds, de>>, end |-> <<es, ee>>]

\* &s[from..]
Suffix(s, from) == SubSeq(s, from + 1, Len(s))

\* s[i..].starts_with(pat)
MatchAt(s, pat, i) ==
    /\ i >= 0
    /\ i + Len(pat) <= Len(s)
    /\ \A k \in 1..Len(pat) : s[i + k] = pat[k]

Min(S) == CHOOSE x \in S : \A y \in S : x <= y

\* s[from..].find(pat).map(|i| i + from), for from <= s.len(); NoIdx for None.
Find(s, pat, from) ==
    LET hits == { i \in from..(Len(s) - Len(pat)) : MatchAt(s, pat, i) }
    IN  IF hits = {} THEN NoIdx ELSE Min(hits)

\* The text find_shortcode is called on: the text still to scan.
rest == Suffix(text, offset)

-----------------------------------------------------------------------------
(* find_all_blocks / find_next_block: the literal code spans. *)

NoSpan == <<NoIdx, NoIdx>>

\* find_next_block with the closing delimiter searched from the opening
\* backtick instead of from the byte after it.
find_next_block_from_start(input) ==
    LET st == Find(input, TICK, 0) IN
    IF st = NoIdx THEN NoSpan
    ELSE
        LET end_delim == IF Len(Suffix(input, st + 1)) > 2
                            /\ SubSeq(input, st + 2, st + 3) = <<"~", "~">>
                         THEN TICK3 ELSE TICK
            e == Find(input, end_delim, st)
        IN  IF e = NoIdx THEN NoSpan ELSE <<st, e + Len(end_delim)>>

find_next_block(input) ==
    LET st == Find(input, TICK, 0) IN
    IF st = NoIdx THEN NoSpan
    ELSE
        LET end_delim == IF Len(Suffix(input, st + 1)) > 2
                            /\ SubSeq(input, st + 2, st + 3) = <<"~", "~">>
                         THEN TICK3 ELSE TICK
            e == Find(input, end_delim, st + 1)
        IN  IF e = NoIdx THEN NoSpan ELSE <<st, e + Len(end_delim)>>

\* rest = &rest[(end)..]; offset += end: the offset of the text still to scan
\* after the span next was found at offset off.
RestAfter(off, next) == off + next[2]

\* One iteration of the loop of find_all_blocks.
FindAllBlocksStep ==
    /\ pc = "blocks"
    /\ LET next == find_next_block(Suffix(text, fab_offset)) IN
       IF next = NoSpan
       THEN /\ pc' = "scan"
            /\ UNCHANGED <<res, fab_offset>>
       ELSE /\ res' = Append(res, <<fab_offset + next[1], fab_offset + next[2]>>)
            /\ fab_offset' = RestAfter(fab_offset, next)
            /\ pc' = "blocks"
    /\ UNCHANGED <<text, offset, start, end, level, cur_start, end_block, result, found>>
    /\ UNCHANGED <<idVars, docVars, mdVars, elVars, nbVars, genVars, paVars, coVars>>

-----------------------------------------------------------------------------
(* find_shortcode, extract_inline, extract_block. *)

\* extract_inline up to the head of its loop.
EnterInline(s) ==
    /\ pc' = "inline"
    /\ start' = s
    /\ level' = 1
    /\ end' = s
    /\ cur_start' = s
    /\ UNCHANGED <<end_block, result>>

\* extract_block up to the head of its loop: the %} of the opening tag.
EnterBlock(s) ==
    LET e == Find(rest, PR, s) IN
    IF e = NoIdx
    THEN /\ pc' = "done"
         /\ result' = None
         /\ UNCHANGED <<start, end, level, cur_start, end_block>>
    ELSE /\ pc' = "block"
         /\ start' = s
         /\ end' = e
         /\ level' = 1
         /\ cur_start' = e
         /\ end_block' = e
         /\ UNCHANGED result

\* An inline shortcode opened wherever a {{ occurs.
InlineFirstAlways(inline_start_idx, block_start_idx) == TRUE

\* if inline_start_idx < block_start_idx
InlineFirst(inline_start_idx, block_start_idx) == inline_start_idx < block_start_idx

\* find_shortcode: the first {{ against the first {%.
FindShortcode ==
    /\ pc = "scan"
    /\ LET start_inline == Find(rest, LL, 0)
           start_block == Find(rest, LP, 0)
       IN  IF start_inline = NoIdx
           THEN IF start_block = NoIdx
                THEN /\ pc' = "done"
                     /\ result' = None
                     /\ UNCHANGED <<start, end, level, cur_start, end_block>>
                ELSE EnterBlock(start_block)
           ELSE IF start_block = NoIdx
                THEN EnterInline(start_inline)
                ELSE IF InlineFirst(start_inline, start_block)
                     THEN EnterInline(start_inline)
                     ELSE EnterBlock(start_block)
    /\ UNCHANGED <<text, res, fab_offset, offset, found>>
    /\ UNCHANGED <<idVars, docVars, mdVars, elVars, nbVars, genVars, paVars, coVars>>

\* The cursor set back to where the search for the delimiter began.
AfterOpenBack(s) == s - 2

\* The cursor after a nested opening delimiter at s, and after a closing
\* }} at e / a closing {% end at e.
AfterOpen(s) == s + 2
AfterInlineClose(e) == e + 2
AfterBlockClose(e) == e + 7

\* One iteration of the loop of extract_inline.
InlineStep ==
    /\ pc = "inline"
    /\ level > 0
    /\ IF cur_start + 2 > Len(rest)
       THEN \* &input[(cur_start + 2)..] is out of range
            /\ pc' = "done"
            /\ result' = Panic
            /\ UNCHANGED <<end, level, cur_start>>
       ELSE LET new_start == Find(rest, LL, cur_start + 2)
                e == Find(rest, RR, cur_start + 2)
            IN  IF e = NoIdx
                THEN /\ pc' = "done"
                     /\ result' = None
                     /\ UNCHANGED <<end, level, cur_start>>
                ELSE /\ end' = e
                     /\ IF new_start # NoIdx /\ new_start < e
                        THEN /\ level' = level + 1
                             /\ cur_start' = AfterOpen(new_start)
                        ELSE /\ level' = level - 1
                             /\ cur_start' = AfterInlineClose(e)
                     /\ UNCHANGED <<pc, result>>
    /\ UNCHANGED <<text, res, fab_offset, offset, start, end_block, found>>
    /\ UNCHANGED <<idVars, docVars, mdVars, elVars, nbVars, genVars, paVars, coVars>>

\* extract_inline returns.
InlineReturn ==
    /\ pc = "inline"
    /\ level = 0
    /\ pc' = "done"
    /\ result' = InlineIdx(start, end)
    /\ UNCHANGED <<text, res, fab_offset, offset, start, end, level, cur_start,
                   end_block, found>>
    /\ UNCHANGED <<idVars, docVars, mdVars, elVars, nbVars, genVars, paVars, coVars>>

\* One iteration of the loop of extract_block.
BlockStep ==
    /\ pc = "block"
    /\ level > 0
    /\ IF cur_start + 2 > Len(rest)
       THEN \* &input[(cur_start + 2)..] is out of range
            /\ pc' = "done"
            /\ result' = Panic
            /\ UNCHANGED <<end_block, level, cur_start>>
       ELSE LET new_start == Find(rest, LP, cur_start + 2)
                eb == Find(rest, END_KW, cur_start + 2)
            IN  IF eb = NoIdx
                THEN /\ pc' = "done"
                     /\ result' = None
                     /\ UNCHANGED <<end_block, level, cur_start>>
                ELSE /\ end_block' = eb
                     /\ IF new_start # NoIdx /\ new_start < eb
                        THEN /\ level' = level + 1
                             /\ cur_start' = AfterOpen(new_start)
                        ELSE /\ level' = level - 1
                             /\ cur_start' = AfterBlockClose(eb)
                     /\ UNCHANGED <<pc, result>>
    /\ UNCHANGED <<text, res, fab_offset, offset, start, end, found>>
    /\ UNCHANGED <<idVars, docVars, mdVars, elVars, nbVars, genVars, paVars, coVars>>

\* extract_block after its loop: the %} of the closing tag.
BlockReturn ==
    /\ pc = "block"
    /\ level = 0
    /\ LET end_of_block == Find(rest, PR, end_block + 6) IN
       /\ pc' = "done"
       /\ result' = IF end_of_block = NoIdx THEN None
                    ELSE BlockIdx(start, end, end_block, end_of_block)
    /\ UNCHANGED <<text, res, fab_offset, offset, start, end, level, cur_start,
                   end_block, found>>
    /\ UNCHANGED <<idVars, docVars, mdVars, elVars, nbVars, genVars, paVars, coVars>>

\* extract_inline, extract_block and find_shortcode as functions of the
\* input: the loops above run to their end.  The arguments of the loops are
\* the local variables at the head of an iteration.
RECURSIVE extract_inline_loop(_, _, _, _, _)
extract_inline_loop(input, st, lvl, e, cur) ==
    IF lvl <= 0 THEN InlineIdx(st, e)
    ELSE IF cur + 2 > Len(input) THEN Panic
    ELSE LET new_start == Find(input, LL, cur + 2)
             e2 == Find(input, RR, cur + 2)
         IN  IF e2 = NoIdx THEN None
             ELSE IF new_start # NoIdx /\ new_start < e2
                  THEN extract_inline_loop(input, st, lvl + 1, e2, AfterOpen(new_start))
                  ELSE extract_inline_loop(input, st, lvl - 1, e2, AfterInlineClose(e2))

extract_inline(st, input) == extract_inline_loop(input, st, 1, st, st)

RECURSIVE extract_block_loop(_, _, _, _, _, _)
extract_block_loop(input, st, e, lvl, eb, cur) ==
    IF lvl <= 0
    THEN LET end_of_block == Find(input, PR, eb + 6) IN
         IF end_of_block = NoIdx THEN None ELSE BlockIdx(st, e, eb, end_of_block)
    ELSE IF cur + 2 > Len(input) THEN Panic
    ELSE LET new_start == Find(input, LP, cur + 2)
             eb2 == Find(input, END_KW, cur + 2)
         IN  IF eb2 = NoIdx THEN None
             ELSE IF new_start # NoIdx /\ new_start < eb2
                  THEN extract_block_loop(input, st, e, lvl + 1, eb2, AfterOpen(new_start))
                  ELSE extract_block_loop(input, st, e, lvl - 1, eb2, AfterBlockClose(eb2))

extract_block(st, input) ==
    LET e == Find(input, PR, st) IN
    IF e = NoIdx THEN None ELSE extract_block_loop(input, st, e, 1, e, e)

find_shortcode(input) ==
    LET start_inline == Find(input, LL, 0)
        start_block == Find(input, LP, 0)
    IN  IF start_inline = NoIdx
        THEN IF start_block = NoIdx THEN None ELSE extract_block(start_block, input)
        ELSE IF start_block = NoIdx THEN extract_inline(start_inline, input)
        ELSE IF InlineFirst(start_inline, start_block)
             THEN extract_inline(start_inline, input)
             ELSE extract_block(start_block, input)

-----------------------------------------------------------------------------
(* The caller of the scanner: shortcode scanning of a text, skipping the   *)
(* literal code spans.                                                     *)

\* The code span, if any, that holds the absolute offset p.
SpanHolding(p) == { i \in 1..Len(res) : res[i][1] <= p /\ p < res[i][2] }

\* The shortcode find_shortcode returned, in absolute offsets.
Absolute(r) ==
    IF r.kind = "Inline"
    THEN InlineIdx(offset + r.start, offset + r.end)
    ELSE BlockIdx(offset + r.def[1], offset + r.def[2],
                  offset + r.end[1], offset + r.end[2])

ShortcodeStart(r) == IF r.kind = "Inline" THEN r.start ELSE r.def[1]
ShortcodeEnd(r) == IF r.kind = "Inline" THEN r.end + 2 ELSE r.end[2] + 2

\* The shortcode found opens inside a literal code span: scanning resumes
\* after the span.
SkipCodeSpan ==
    /\ pc = "done"
    /\ result.kind \in {"Inline", "Block"}
    /\ SpanHolding(offset + ShortcodeStart(result)) # {}
    /\ LET i == Min(SpanHolding(offset + ShortcodeStart(result))) IN
       offset' = res[i][2]
    /\ pc' = "scan"
    /\ UNCHANGED <<text, res, fab_offset, start, end, level, cur_start, end_block,
                   result, found>>
    /\ UNCHANGED <<idVars, docVars, mdVars, elVars, nbVars, genVars, paVars, coVars>>

\* The shortcode found is reported; scanning resumes after it.
ReportShortcode ==
    /\ pc = "done"
    /\ result.kind \in {"Inline", "Block"}
    /\ SpanHolding(offset + ShortcodeStart(result)) = {}
    /\ found' = Append(found, Absolute(result))
    /\ offset' = offset + ShortcodeEnd(result)
    /\ pc' = "scan"
    /\ UNCHANGED <<text, res, fab_offset, start, end, level, cur_start, end_block,
                   result>>
    /\ UNCHANGED <<idVars, docVars, mdVars, elVars, nbVars, genVars, paVars, coVars>>

-----------------------------------------------------------------------------
(* The process-wide id counter: get_id, called once for every code block a  *)
(* render call renders.  Any number of render calls run at once, each on a  *)
(* thread of its own.                                                       *)

\* The render threads, and the ids handed out in all.
NumThreads == 3
MaxIds == 6

Threads == 1..NumThreads

\* fetch_add that stores the value it read: a load in place of the update.
FetchAddNothing(c) == c

\* COUNTER.fetch_add(1, Ordering::Relaxed): the value stored.  (The counter
\* wraps at 2^64, which no run of MaxIds allocations reaches.)
FetchAddStored(c) == c + 1


\* get_id, on thread t: one atomic read-modify-write; the value returned is
\* the value read.
get_id(t) ==
    /\ COUNTER <= MaxIds
    /\ ids' = [ids EXCEPT ![t] = Append(@, COUNTER)]
    /\ COUNTER' = FetchAddStored(COUNTER)
    /\ UNCHANGED <<scanVars, docVars, mdVars, elVars, nbVars, genVars, paVars, coVars>>


-----------------------------------------------------------------------------
(* The tree builder: the ordinal of a shortcode.                            *)

MaxDoc == 4

Names == {"fig", "table"}

NoId == "<none>"

\* Argument<T>
Positional(v) == [kw |-> FALSE, key |-> "", value |-> v]
Keyword(k, v) == [kw |-> TRUE, key |-> k, value |-> v]

\* The shortcode calls a document is written with: name, id, inline or
\* block, arguments.
Calls ==
    { [name |-> "fig", id |-> NoId, block |-> FALSE,
       parameters |-> <<Keyword("title", "x")>>],
      [name |-> "fig", id |-> "f1", block |-> FALSE,
       parameters |-> <<Positional("x")>>],
      [name |-> "fig", id |-> NoId, block |-> FALSE,
       parameters |-> <<Keyword("title", "x"), Keyword("bogus", "y")>>],
      [name |-> "fig", id |-> NoId, block |-> FALSE,
       parameters |-> <<>>],
      [name |-> "fig", id |-> NoId, block |-> TRUE,
       parameters |-> <<Keyword("bogus", "y")>>],
      [name |-> "table", id |-> NoId, block |-> TRUE,
       parameters |-> <<Keyword("title", "x")>>],
      [name |-> "table", id |-> "t1", block |-> FALSE,
       parameters |-> <<Positional("x"), Keyword("caption", "c")>>] }

\* The first ordinal of a name.
FirstNum == 1

\* A counter that an occurrence does not increment.
NumAfterSame(n) == n

\* The counter of a name after an occurrence took n.
NumAfter(n) == n + 1

\* ShortcodeBase
ShortcodeBase(call, n) ==
    [name |-> call.name, id |-> call.id, num |-> n, block |-> call.block,
     parameters |-> call.parameters]

\* The tree builder meets the next shortcode of the text: it takes the
\* counter of its name, then increments it.
ParseShortcode(call) ==
    /\ ~parsed
    /\ Len(ast) < MaxDoc
    /\ ast' = Append(ast, ShortcodeBase(call, counters[call.name]))
    /\ counters' = [counters EXCEPT ![call.name] = NumAfter(@)]
    /\ UNCHANGED <<parsed, rfmt, rstatus, ridx, rerr, buf, tmpl_calls>>
    /\ UNCHANGED <<scanVars, idVars, mdVars, elVars, nbVars, genVars, paVars, coVars>>

\* The text is exhausted: the tree is complete.
FinishParse ==
    /\ ~parsed
    /\ parsed' = TRUE
    /\ UNCHANGED <<counters, ast, rfmt, rstatus, ridx, rerr, buf, tmpl_calls>>
    /\ UNCHANGED <<scanVars, idVars, mdVars, elVars, nbVars, genVars, paVars, coVars>>

-----------------------------------------------------------------------------
(* Template/shortcode binding and shortcode rendering.                      *)

\* The formats GenericRenderer renders (ctx.format), and the format of
\* MarkdownRenderer.  (The LatexRenderer of renderers/latex.rs has no arm for
\* shortcodes.)
TemplatedFormats == {"html", "latex"}
Formats == TemplatedFormats \cup {"markdown"}

\* TemplateDefinition.shortcode.parameters of the registered shortcodes.
Param(n, opt) == [name |-> n, optional |-> opt]
Schema(name) ==
    IF name = "fig" THEN <<Param("title", FALSE)>>
    ELSE <<Param("title", FALSE), Param("caption", TRUE)>>

ParamNames(name) == { Schema(name)[i].name : i \in 1..Len(Schema(name)) }

\* A schema error.
UnknownArg(k) == [kind |-> "unknown", name |-> k]
MissingArg(n) == [kind |-> "missing", name |-> n]
NoErr == [kind |-> "none", name |-> ""]

RECURSIVE SelectErrs(_)
SelectErrs(es) ==
    IF es = <<>> THEN <<>>
    ELSE IF Head(es) = NoErr THEN SelectErrs(Tail(es))
    ELSE <<Head(es)>> \o SelectErrs(Tail(es))

\* The number of positional arguments among the first n.
PositionalCount(args, n) == Cardinality({ i \in 1..n : ~args[i].kw })

\* Parameter i of the schema is supplied by args: by position or by key.
Supplied(name, args, i) ==
    \/ i <= PositionalCount(args, Len(args))
    \/ \E j \in 1..Len(args) : args[j].kw /\ args[j].key = Schema(name)[i].name

\* validate_args_for_template: the schema errors of a call; first the
\* keyword arguments the schema does not declare, in call order, then the
\* required parameters the call does not supply, in schema order.
validate_args_for_template(name, args) ==
    SelectErrs([j \in 1..Len(args) |->
                    IF args[j].kw /\ args[j].key \notin ParamNames(name)
                    THEN UnknownArg(args[j].key) ELSE NoErr])
    \o
    SelectErrs([i \in 1..Len(Schema(name)) |->
                    IF ~Schema(name)[i].optional /\ ~Supplied(name, args, i)
                    THEN MissingArg(Schema(name)[i].name) ELSE NoErr])

\* The raw source of an argument in place of its rendering.
RenderedRaw(fmt, v) == <<"source", v>>

\* The value of an argument (or of a body) rendered to a format.
Rendered(fmt, v) == <<fmt, v>>

\* render_params: every argument value rendered with the same renderer.
render_params(parameters, fmt) ==
    [j \in 1..Len(parameters) |->
        [parameters[j] EXCEPT !.value = Rendered(fmt, @)]]

\* tera::Context::insert
Insert(context, k, v) ==
    [x \in (DOMAIN context) \cup {k} |-> IF x = k THEN v ELSE context[x]]

EmptyContext == [x \in {} |-> 0]

\* add_args putting the next ordinal into the context.
ContextNumNext(num) == num + 1

\* The num add_args puts into the context.
ContextNum(num) == num

RECURSIVE InsertArguments(_, _, _, _)
InsertArguments(context, name, arguments, i) ==
    IF i > Len(arguments) THEN context
    ELSE LET p == arguments[i]
             k == IF p.kw THEN p.key ELSE Schema(name)[i].name
         IN  InsertArguments(Insert(context, k, p.value), name, arguments, i + 1)

\* add_args
add_args(name, id, num, arguments) ==
    LET a1 == IF id # NoId THEN Insert(EmptyContext, "id", id) ELSE EmptyContext
        a2 == Insert(a1, "num", ContextNum(num))
        a3 == Insert(Insert(a2, "ids", "ids"), "id_map", "id_map")
    IN  InsertArguments(a3, name, arguments, 1)

Ok(context) == [ok |-> TRUE, context |-> context, err |-> NoErr]
Err(e) == [ok |-> FALSE, context |-> EmptyContext, err |-> e]

\* render_shortcode_template without the r? that returns the schema error.
generic_shortcode_context_unchecked(def, fmt) ==
    LET rendered == render_params(def.parameters, fmt)
        args == add_args(def.name, def.id, def.num, rendered)
    IN  Ok(IF def.block THEN Insert(args, "body", Rendered(fmt, "body"))
           ELSE args)

\* GenericRenderer::render_shortcode_template up to the call of
\* templates.render: the context of the template, or the error returned.
generic_shortcode_context(def, fmt) ==
    LET rendered == render_params(def.parameters, fmt)
        r == validate_args_for_template(def.name, rendered)
    IN  IF r # <<>> THEN Err(r[1])
        ELSE LET args == add_args(def.name, def.id, def.num, rendered)
             IN  Ok(IF def.block THEN Insert(args, "body", Rendered(fmt, "body"))
                    ELSE args)

\* render_shortcode_template of renderers/markdown.rs, likewise.
markdown_shortcode_context(def, fmt) ==
    LET p == render_params(def.parameters, fmt)
        context == add_args(def.name, def.id, def.num, p)
    IN  Ok(IF def.block THEN Insert(context, "body", Rendered(fmt, "body"))
           ELSE context)

shortcode_context(def, fmt) ==
    IF fmt \in TemplatedFormats
    THEN generic_shortcode_context(def, fmt)
    ELSE markdown_shortcode_context(def, fmt)

\* A render call starts: GenericRenderer::render_doc with ctx.format = fmt,
\* or MarkdownRenderer::render.
StartRender(fmt) ==
    /\ parsed
    /\ rstatus # "running"
    /\ rfmt' = fmt
    /\ rstatus' = "running"
    /\ ridx' = 0
    /\ rerr' = NoErr
    /\ buf' = <<>>
    /\ tmpl_calls' = <<>>
    /\ UNCHANGED <<counters, ast, parsed>>
    /\ UNCHANGED <<scanVars, idVars, mdVars, elVars, nbVars, genVars, paVars, coVars>>

\* The render call reaches the next shortcode of the document.  An error of
\* render_shortcode_template is the error of every render it is nested in, and
\* of render_doc.
RenderShortcode ==
    /\ rstatus = "running"
    /\ ridx < Len(ast)
    /\ LET def == ast[ridx + 1]
           c == shortcode_context(def, rfmt)
       IN  IF c.ok
           THEN /\ tmpl_calls' = Append(tmpl_calls,
                        [idx |-> ridx + 1, name |-> def.name, format |-> rfmt,
                         context |-> c.context])
                /\ buf' = Append(buf, <<def.name, rfmt, ridx + 1>>)
                /\ ridx' = ridx + 1
                /\ UNCHANGED <<rstatus, rerr>>
           ELSE /\ rstatus' = "err"
                /\ rerr' = c.err
                /\ UNCHANGED <<ridx, buf, tmpl_calls>>
    /\ UNCHANGED <<counters, ast, parsed, rfmt>>
    /\ UNCHANGED <<scanVars, idVars, mdVars, elVars, nbVars, genVars, paVars, coVars>>

\* The render call returns the rendered document.
FinishRender ==
    /\ rstatus = "running"
    /\ ridx = Len(ast)
    /\ rstatus' = "ok"
    /\ UNCHANGED <<counters, ast, parsed, rfmt, ridx, rerr, buf, tmpl_calls>>
    /\ UNCHANGED <<scanVars, idVars, mdVars, elVars, nbVars, genVars, paVars, coVars>>


-----------------------------------------------------------------------------
(* The markdown renderer: impl ToMarkdown of cdoc/src/renderers/markdown.rs. *)

\* The tilde; it is written "tilde", as "~" stands for the backtick.
TILDE == <<"tilde">>
NL == <<"\n">>
TAB == <<"\t">>

\* Inline
Text(s) == [t |-> "Text", s |-> s]
Emphasis(i) == [t |-> "Emphasis", inner |-> i]
Strong(i) == [t |-> "Strong", inner |-> i]
Strikethrough(i) == [t |-> "Strikethrough", inner |-> i]
Code(c) == [t |-> "Code", s |-> c]
SoftBreak == [t |-> "SoftBreak"]
HardBreak == [t |-> "HardBreak"]
Rule == [t |-> "Rule"]
Link(url, title, i) == [t |-> "Link", url |-> url, title |-> title, inner |-> i]

\* Block
Heading(lvl, i) == [t |-> "Heading", lvl |-> lvl, inner |-> i]
Plain(i) == [t |-> "Plain", inner |-> i]
Paragraph(i) == [t |-> "Paragraph", inner |-> i]
BlockQuote(i) == [t |-> "BlockQuote", inner |-> i]
CodeAttributes(editable, fold) == [editable |-> editable, fold |-> fold]
NoReference == "<none>"
CodeBlock(source, reference, attr, outputs) ==
    [t |-> "CodeBlock", source |-> source, reference |-> reference, attr |-> attr,
     outputs |-> outputs]
List(idx, items) == [t |-> "List", idx |-> idx, items |-> items]
ListItem(inner) == [t |-> "ListItem", inner |-> inner]

\* "#".repeat(n), "\t".repeat(n)
RECURSIVE Repeat(_, _)
Repeat(s, n) == IF n <= 0 THEN <<>> ELSE s \o Repeat(s, n - 1)

\* impl ToMarkdown for Inline, and for Vec<Inline>
RECURSIVE InlineToMarkdown(_)
RECURSIVE InlinesToMarkdown(_)
InlineToMarkdown(i) ==
    CASE i.t = "Text" -> i.s
      [] i.t = "Emphasis" -> <<"*">> \o InlinesToMarkdown(i.inner) \o <<"*">>
      [] i.t = "Strong" ->
            <<"*", "*">> \o InlinesToMarkdown(i.inner) \o <<"*", "*">>
      [] i.t = "Strikethrough" ->
            TILDE \o TILDE \o InlinesToMarkdown(i.inner) \o TILDE \o TILDE
      [] i.t = "Code" -> TICK \o i.s \o TICK
      [] i.t = "SoftBreak" -> NL
      [] i.t = "HardBreak" -> NL \o NL
      [] i.t = "Rule" -> <<"-", "-", "-">> \o NL
      [] i.t = "Link" -> <<"[">> \o i.title \o <<"]", "(">> \o i.url \o <<")">>
      [] i.t = "Image" -> <<"!", "[">> \o i.alt \o <<"]", "(">> \o i.url \o <<")">>
      [] i.t = "Html" -> i.s
      [] i.t = "Math" -> <<"$">> \o i.source \o <<"$">>

InlinesToMarkdown(v) ==
    IF v = <<>> THEN <<>>
    ELSE InlineToMarkdown(Head(v)) \o InlinesToMarkdown(Tail(v))

\* The decimal form of a list ordinal (the ordinals of the model have one
\* digit).
IdxToString(n) == << <<"0", "1", "2", "3", "4", "5", "6", "7", "8", "9">>[n + 1] >>

\* The templates builtins/md/list_item, list_ordered and list_unordered: an
\* item with an idx is written "idx. value", one without "- value"; the
\* wrappers write the items as they are.
list_item_template(idx, value) ==
    IF idx = NoIdx THEN <<"-", " ">> \o value
    ELSE IdxToString(idx) \o <<".", " ">> \o value

list_ordered_template(first, value) == value

list_unordered_template(value) == value

\* A list item indented by nothing.
IndentNone(lvl) == 0

\* The tabs in front of a list item: ctx.list_lvl - 1.
Indent(lvl) == lvl - 1

\* The context a list item is rendered in: ToMarkdownContext, with the record
\* of what the lists and items rendered so far were rendered with.
ToMarkdownContext(idx, lvl, lists, items) ==
    [list_idx |-> idx, list_lvl |-> lvl, lists |-> lists, items |-> items]

\* impl ToMarkdown for Block, and for Vec<Block>: the markdown written and the
\* context left behind.  path is the place of the block in the document: the
\* index of a block of the content, followed by the index of each child on
\* the way down.  (Every ListItem of a document is an item of a List, so
\* list_lvl is not 0 where list_lvl - 1 is computed.)
RECURSIVE BlockToMarkdown(_, _, _)
RECURSIVE BlocksToMarkdown(_, _, _, _)
BlockToMarkdown(b, ctx, path) ==
    CASE b.t = "Heading" ->
            [s |-> Repeat(<<"#">>, b.lvl) \o <<" ">> \o InlinesToMarkdown(b.inner) \o NL,
             ctx |-> ctx]
      [] b.t = "Plain" -> [s |-> InlinesToMarkdown(b.inner), ctx |-> ctx]
      [] b.t = "Paragraph" -> [s |-> InlinesToMarkdown(b.inner) \o NL, ctx |-> ctx]
      [] b.t = "BlockQuote" -> [s |-> InlinesToMarkdown(b.inner), ctx |-> ctx]
      [] b.t = "CodeBlock" ->
            [s |-> TICK3 \o NL \o b.source \o NL \o TICK3, ctx |-> ctx]
      [] b.t = "List" ->
            LET c1 == [ctx EXCEPT !.list_lvl = @ + 1,
                                  !.list_idx = IF b.idx = NoIdx THEN NoIdx ELSE 1]
                r == BlocksToMarkdown(b.items, c1, path, 1)
                s == IF b.idx = NoIdx
                     THEN NL \o list_unordered_template(r.s) \o NL
                     ELSE NL \o list_ordered_template(b.idx, r.s) \o NL
                c2 == [r.ctx EXCEPT !.list_lvl = @ - 1]
            IN  [s |-> s,
                 ctx |-> [c2 EXCEPT !.lists = Append(@,
                            [path |-> path,
                             before |-> <<ctx.list_idx, ctx.list_lvl>>,
                             after |-> <<c2.list_idx, c2.list_lvl>>])]]
      [] b.t = "ListItem" ->
            LET idx == ctx.list_idx
                c1 == [ctx EXCEPT !.list_idx = IF @ = NoIdx THEN NoIdx ELSE @ + 1]
                r == BlocksToMarkdown(b.inner, c1, path, 1)
                s == Repeat(TAB, Indent(r.ctx.list_lvl))
                        \o list_item_template(idx, r.s) \o NL
            IN  [s |-> s,
                 ctx |-> [r.ctx EXCEPT !.items = Append(@,
                            [path |-> path, idx |-> idx, s |-> s])]]

BlocksToMarkdown(v, ctx, path, k) ==
    IF k > Len(v) THEN [s |-> <<>>, ctx |-> ctx]
    ELSE LET r1 == BlockToMarkdown(v[k], ctx, path \o <<k>>)
             r2 == BlocksToMarkdown(v, r1.ctx, path, k + 1)
         IN  [s |-> r1.s \o r2.s, ctx |-> r2.ctx]

\* <Vec<Block> as ToMarkdown>::to_markdown renders the next block of the
\* content of the document.
ToMarkdownBlock ==
    /\ md_pos < Len(md_doc)
    /\ LET r == BlockToMarkdown(md_doc[md_pos + 1],
                    ToMarkdownContext(list_idx, list_lvl, md_lists, md_items),
                    <<md_pos + 1>>)
       IN  /\ md_out' = md_out \o r.s
           /\ list_idx' = r.ctx.list_idx
           /\ list_lvl' = r.ctx.list_lvl
           /\ md_lists' = r.ctx.lists
           /\ md_items' = r.ctx.items
    /\ md_pos' = md_pos + 1
    /\ UNCHANGED md_doc
    /\ UNCHANGED <<scanVars, idVars, docVars, elVars, nbVars, genVars, paVars, coVars>>

\* The most items of a list, and the most blocks of a document without lists.
MaxItems == 3
MaxBlocks == 2

X == Text(<<"x">>)

\* The inline content of the blocks of the documents.
InlineSeqs ==
    { <<X>>,
      <<Emphasis(<<X>>)>>,
      <<Strong(<<Emphasis(<<X>>)>>)>>,
      <<X, HardBreak, X>>,
      <<X, SoftBreak, SoftBreak, X>>,
      <<Link(<<"u">>, <<"t">>, <<Emphasis(<<X>>)>>)>>,
      <<Strikethrough(<<Code(<<"x">>)>>), Rule>> }

\* The blocks without lists.
LeafBlocks ==
    { Paragraph(i) : i \in InlineSeqs } \cup { BlockQuote(i) : i \in InlineSeqs }
        \cup { Heading(l, i) : l \in {1, 2}, i \in InlineSeqs }
        \cup { Plain(<<X>>),
               CodeBlock(<<"x">>, NoReference, CodeAttributes(TRUE, FALSE), <<>>) }

LeafDocs == UNION { [1..n -> LeafBlocks] : n \in 1..MaxBlocks }

\* Option<u64>: an unordered list, an ordered list from 1, and one from 3.
ListKinds == {NoIdx, 1, 3}

\* The lists: items of one line, items that hold a list of such items, and
\* an item that holds a list in a list.
FlatItem == ListItem(<<Plain(<<X>>)>>)

FlatLists ==
    { List(i, [k \in 1..n |-> FlatItem]) : i \in ListKinds, n \in 1..(MaxItems - 1) }

DeepItem ==
    ListItem(<<Plain(<<X>>),
               List(1, <<ListItem(<<Plain(<<X>>), List(1, <<FlatItem>>)>>)>>)>>)

Items ==
    {FlatItem, DeepItem} \cup { ListItem(<<Plain(<<X>>), l>>) : l \in FlatLists }

Lists ==
    { List(i, its) : i \in ListKinds,
                     its \in UNION { [1..n -> Items] : n \in 1..MaxItems } }

\* The documents rendered.
MdDocs ==
    LeafDocs \cup { <<l>> : l \in Lists }
        \cup { <<l, Paragraph(<<X>>)>> : l \in FlatLists }
        \cup { <<l1, l2>> : l1 \in FlatLists, l2 \in FlatLists }

-----------------------------------------------------------------------------
(* Elements to blocks: impl From<Element> for Vec<Block> and                *)
(* impl From<RawContent> for Ast of cdoc/src/document.rs.                   *)

MaxElems == 3

\* Option<Vec<CellOutput>>
NoOutput == [some |-> FALSE, v |-> <<>>]
SomeOutput(v) == [some |-> TRUE, v |-> v]

\* Element
ElementMarkdown(content) == [t |-> "Markdown", content |-> content]
ElementCode(cell_number, content, output) ==
    [t |-> "Code", cell_number |-> cell_number, content |-> content, output |-> output]
ElementRaw(content) == [t |-> "Raw", content |-> content]
ElementDefault == [t |-> "Default"]

\* The markdown sources of the elements, and the blocks the markdown
\* tokenizer and the collector make of each.
MarkdownSources ==
    { <<>>, <<"x">>, <<"#", " ", "x">>, <<"x", "\n", "\n", "x">> }

ParseMarkdown(content) ==
    CASE content = <<>> -> <<>>
      [] content = <<"x">> -> <<Paragraph(<<X>>)>>
      [] content = <<"#", " ", "x">> -> <<Heading(1, <<X>>)>>
      [] content = <<"x", "\n", "\n", "x">> -> <<Paragraph(<<X>>), Paragraph(<<X>>)>>

\* The elements of the documents.
Elements ==
    { ElementMarkdown(m) : m \in MarkdownSources }
        \cup { ElementCode(1, <<"c">>, NoOutput),
               ElementCode(2, <<"c">>, SomeOutput(<<>>)),
               ElementCode(1, <<"c">>, SomeOutput(<<"o1">>)),
               ElementCode(2, <<"d">>, SomeOutput(<<"o1", "o2">>)),
               ElementCode(1, <<"c">>, SomeOutput(<<"o2", "o1">>)),
               ElementRaw(<<"r">>),
               ElementDefault }

\* The outputs of a code element left out.
UnwrapDropped(output) == <<>>

\* output.unwrap_or(Vec::default())
UnwrapOrDefault(output) == IF output.some THEN output.v ELSE <<>>

\* impl From<Element> for Vec<Block>
ElementToBlocks(value) ==
    CASE value.t = "Markdown" -> ParseMarkdown(value.content)
      [] value.t = "Code" ->
            << CodeBlock(value.content, NoReference, CodeAttributes(TRUE, FALSE),
                         UnwrapOrDefault(value.output)) >>
      [] value.t = "Raw" -> <<>>
      [] value.t = "Default" -> <<>>

\* The blocks of an element put in front of the blocks collected.
ExtendFront(collected, bs) == bs \o collected

\* flat_map(...).collect(): the blocks of an element follow the blocks of
\* the elements before it.
Extend(collected, bs) == collected \o bs

\* impl From<RawContent> for Ast: the next element is converted.
AstFromElement ==
    /\ el_pos < Len(elements)
    /\ LET bs == ElementToBlocks(elements[el_pos + 1]) IN
       /\ converted' = Append(converted, bs)
       /\ blocks' = Extend(blocks, bs)
    /\ el_pos' = el_pos + 1
    /\ UNCHANGED elements
    /\ UNCHANGED <<scanVars, idVars, docVars, mdVars, nbVars, genVars, paVars, coVars>>

-----------------------------------------------------------------------------
(* Notebook cells to elements: impl IntoRawContent for Notebook of          *)
(* cdoc/src/document.rs.                                                    *)

MaxCells == 4

\* Cell, with the fields the conversion reads: common.source and outputs.
CellMarkdown(source) == [t |-> "Markdown", source |-> source]
CellCode(source, outputs) == [t |-> "Code", source |-> source, outputs |-> outputs]
CellRaw(source) == [t |-> "Raw", source |-> source]

\* The cells of the notebooks.
Cells ==
    { CellMarkdown(<<"x">>),
      CellCode(<<"c">>, <<>>),
      CellCode(<<"d">>, <<"o1">>),
      CellRaw(<<"r">>) }

\* A fold that starts at the number of the code cells before the first cell.
FoldInitCount == Len(<<>>)

\* The initial value of the fold: (1, Vec::new()).
FoldInit == 1

\* A fold in which every cell takes a number.
NextNumEveryCell(num, cell) == num + 1

\* let next = match &cell { Cell::Code { .. } => num + 1, _ => num };
NextNum(num, cell) == IF cell.t = "Code" THEN num + 1 ELSE num

\* The closure of the fold, run on the next cell.
FoldCell ==
    /\ nb_elements = None
    /\ nb_pos < Len(cells)
    /\ LET cell == cells[nb_pos + 1]
           next == NextNum(nb_num, cell) IN
       /\ nb_acc' = Append(nb_acc, <<next, cell>>)
       /\ nb_num' = next
    /\ nb_pos' = nb_pos + 1
    /\ UNCHANGED <<cells, nb_elements>>
    /\ UNCHANGED <<scanVars, idVars, docVars, mdVars, elVars, genVars, paVars, coVars>>

\* The value a conversion returned.
Returned(v) == [kind |-> "Returned", v |-> v]

\* The closure of the map: the element made of a pair (i, cell).
CellToElement(i, cell) ==
    CASE cell.t = "Markdown" -> ElementMarkdown(cell.source)
      [] cell.t = "Code" -> ElementCode(i, cell.source, SomeOutput(cell.outputs))
      [] cell.t = "Raw" -> ElementRaw(cell.source)

\* .1.into_iter().map(...).collect(): the fold is over, the pairs are mapped
\* to elements and returned.
CollectElements ==
    /\ nb_elements = None
    /\ nb_pos = Len(cells)
    /\ nb_elements' =
           Returned([k \in 1..Len(nb_acc) |-> CellToElement(nb_acc[k][1], nb_acc[k][2])])
    /\ UNCHANGED <<cells, nb_pos, nb_num, nb_acc>>
    /\ UNCHANGED <<scanVars, idVars, docVars, mdVars, elVars, genVars, paVars, coVars>>

-----------------------------------------------------------------------------
(* The templated renderer: impl RenderElement<...> for GenericRenderer and  *)
(* GenericRenderer::render_doc of cdoc/src/renderers/generic.rs;            *)
(* MarkdownRenderer::render of renderers/markdown.rs; Document::map of      *)
(* document.rs.                                                             *)

\* The most blocks of a document handed to a renderer.
MaxGenBlocks == 2

\* The inlines of ast/mod.rs that the markdown documents above do not use.
Image(url, alt, i) == [t |-> "Image", url |-> url, alt |-> alt, inner |-> i]
Html(s) == [t |-> "Html", s |-> s]
Math(source, display_block, trailing_space) ==
    [t |-> "Math", source |-> source, display_block |-> display_block,
     trailing_space |-> trailing_space]
InlineShortcode(def) == [t |-> "Shortcode", def |-> def]

\* OutputValue and CellOutput, as the renderer reads them.
OutputPlain(s) == [t |-> "Plain", s |-> s]
OutputImage(s) == [t |-> "Image", s |-> s]
OutputSvg(s) == [t |-> "Svg", s |-> s]
OutputJson(s) == [t |-> "Json", s |-> s]
OutputHtml(s) == [t |-> "Html", s |-> s]
OutputJavascript(s) == [t |-> "Javascript", s |-> s]

Stream(stream_text, name) == [t |-> "Stream", text |-> stream_text, name |-> name]
Data(data) == [t |-> "Data", data |-> data]
Error(evalue) == [t |-> "Error", evalue |-> evalue]

\* DocumentMetadata, with the fields the renderers read, and
\* DocumentVariables::default().
Metadata(interactive, cell_outputs, editable) ==
    [interactive |-> interactive, cell_outputs |-> cell_outputs, editable |-> editable]
DefaultVariables == "default"

\* Document<C>
Document(content, metadata, variables, doc_ids, id_map) ==
    [content |-> content, metadata |-> metadata, variables |-> variables,
     ids |-> doc_ids, id_map |-> id_map]

\* What a renderer writes to its buffer: a string written as it is, or the
\* output of templates.render(name, format, type, args, buf), which is
\* whatever the template of that name, format and type makes of args.
Written(s) == [raw |-> TRUE, s |-> s]
TemplateOutput(name, format, type_, args) ==
    [raw |-> FALSE, name |-> name, format |-> format, type_ |-> type_, args |-> args]

\* syntect::html::highlighted_html_for_string, and serde_json::to_string.
Highlighted(source) == <<"highlighted", source>>
JsonToString(s) == <<"json", s>>

\* Option<Vec<String>>::None: the code blocks of the model carry no tags.
NoTags == "none"

\* The state of a render: the buffer written to, COUNTER, the record of
\* what the arm of each node met wrote itself (its own writes, not those of
\* the nodes it holds), and the error a ? returned, if one did.
RenderState(written, counter, log) ==
    [ok |-> TRUE, err |-> NoErr, buf |-> written, counter |-> counter, log |-> log]
Failed(e) == [kind |-> "Failed", err |-> e]

\* An arm is over: node (of enum kind) wrote own to the buffer.
Wrote(r, kind, node, own) ==
    [r EXCEPT !.buf = @ \o own,
              !.log = Append(@, [kind |-> kind, t |-> node.t, own |-> own])]

\* ctx.templates.render(name, ctx.format, type_, &args, buf)
RenderTemplate(r, ctx, kind, node, name, type_, args) ==
    Wrote(r, kind, node, <<TemplateOutput(name, ctx.format, type_, args)>>)

\* render_value_template and render_basic_template
render_value_template(r, ctx, kind, node, name, value) ==
    RenderTemplate(r, ctx, kind, node, name, "Builtin", [value |-> value])
render_basic_template(r, ctx, kind, node, name) ==
    RenderTemplate(r, ctx, kind, node, name, "Builtin", EmptyContext)

\* impl RenderElement<Inline / OutputValue / CellOutput / Block> for
\* GenericRenderer, the rendering of a vector of elements one after the
\* other, and render_inner, which renders to a buffer of its own.  A render
\* that failed is carried through: every call is followed by ?.
RECURSIVE Render(_, _, _, _)
RECURSIVE RenderAll(_, _, _, _, _)

render_inner(r, ctx, kind, v) == RenderAll([r EXCEPT !.buf = <<>>], ctx, kind, v, 1)

\* The arms of Inline that render their inner inlines to a string and hand
\* it to a template.
RenderInline(r, ctx, elem) ==
    LET q == render_inner(r, ctx, "Inline", elem.inner)
        back == [q EXCEPT !.buf = r.buf]
    IN  CASE elem.t = "Emphasis" ->
                IF ~q.ok THEN q
                ELSE render_value_template(back, ctx, "Inline", elem, "emphasis", q.buf)
          [] elem.t = "Strong" ->
                IF ~q.ok THEN q
                ELSE render_value_template(back, ctx, "Inline", elem, "strong", q.buf)
          [] elem.t = "Strikethrough" ->
                IF ~q.ok THEN q
                ELSE render_value_template(back, ctx, "Inline", elem, "strikethrough", q.buf)
          [] elem.t = "Image" ->
                IF ~q.ok THEN q
                ELSE RenderTemplate(back, ctx, "Inline", elem, "image", "Builtin",
                        [url |-> elem.url, alt |-> elem.alt, inner |-> q.buf])
          [] elem.t = "Link" ->
                IF ~q.ok THEN q
                ELSE RenderTemplate(back, ctx, "Inline", elem, "link", "Builtin",
                        [url |-> elem.url, alt |-> elem.title, inner |-> q.buf])

RenderShortcodeTemplate(r, ctx, elem) ==
    LET c == generic_shortcode_context(elem.def, ctx.format) IN
    IF ~c.ok THEN [r EXCEPT !.ok = FALSE, !.err = c.err]
    ELSE RenderTemplate(r, ctx, "Inline", elem, elem.def.name, "Shortcode", c.context)

RenderOutputValue(r, ctx, elem) ==
    CASE elem.t = "Plain" ->
            render_value_template(r, ctx, "OutputValue", elem, "output_text",
                                  Concat(elem.s))
      [] elem.t = "Image" ->
            render_value_template(r, ctx, "OutputValue", elem, "output_img", elem.s)
      [] elem.t = "Svg" ->
            render_value_template(r, ctx, "OutputValue", elem, "output_svg", elem.s)
      [] elem.t = "Json" ->
            Wrote(r, "OutputValue", elem, <<Written(JsonToString(elem.s))>>)
      [] elem.t = "Html" -> Wrote(r, "OutputValue", elem, <<Written(elem.s)>>)
      [] elem.t = "Javascript" -> Wrote(r, "OutputValue", elem, <<>>)

RenderCellOutput(r, ctx, elem) ==
    CASE elem.t = "Stream" ->
            IF elem.name = "StdOut"
            THEN render_value_template(r, ctx, "CellOutput", elem, "output_text", elem.text)
            ELSE render_value_template(r, ctx, "CellOutput", elem, "output_error", elem.text)
      [] elem.t = "Data" ->
            LET q == RenderAll(r, ctx, "OutputValue", elem.data, 1)
            IN  IF ~q.ok THEN q ELSE Wrote(q, "CellOutput", elem, <<>>)
      [] elem.t = "Error" ->
            render_value_template(r, ctx, "CellOutput", elem, "output_error", elem.evalue)

RenderBlock(r, ctx, elem) ==
    CASE elem.t = "Heading" ->
            LET q == render_inner(r, ctx, "Inline", elem.inner)
            IN  IF ~q.ok THEN q
                ELSE RenderTemplate([q EXCEPT !.buf = r.buf], ctx, "Block", elem,
                        "header", "Builtin", [level |-> elem.lvl, inner |-> q.buf])
      [] elem.t = "Plain" ->
            LET q == RenderAll(r, ctx, "Inline", elem.inner, 1)
            IN  IF ~q.ok THEN q ELSE Wrote(q, "Block", elem, <<>>)
      [] elem.t \in {"Paragraph", "BlockQuote"} ->
            LET q == render_inner(r, ctx, "Inline", elem.inner)
            IN  IF ~q.ok THEN q
                ELSE render_value_template([q EXCEPT !.buf = r.buf], ctx, "Block", elem,
                        "paragraph", q.buf)
      [] elem.t = "CodeBlock" ->
            LET id == r.counter
                r1 == [r EXCEPT !.counter = FetchAddStored(@)]
                q == render_inner(r1, ctx, "CellOutput", elem.outputs)
            IN  IF ~q.ok THEN q
                ELSE RenderTemplate([q EXCEPT !.buf = r.buf], ctx, "Block", elem,
                        "cell", "Builtin",
                        [interactive |-> ctx.doc.metadata.interactive,
                         cell_outputs |-> ctx.doc.metadata.cell_outputs,
                         editable |-> ctx.doc.metadata.editable,
                         source |-> elem.source,
                         highlighted |-> Highlighted(elem.source),
                         id |-> id,
                         tags |-> NoTags,
                         outputs |-> q.buf])
      [] elem.t = "List" ->
            LET q == render_inner(r, ctx, "Block", elem.items)
                back == [q EXCEPT !.buf = r.buf]
            IN  IF ~q.ok THEN q
                ELSE IF elem.idx = NoIdx
                THEN render_value_template(back, ctx, "Block", elem, "list_unordered", q.buf)
                ELSE RenderTemplate(back, ctx, "Block", elem, "list_ordered", "Builtin",
                        [start |-> elem.idx, value |-> q.buf])
      [] elem.t = "ListItem" ->
            LET q == render_inner(r, ctx, "Block", elem.inner)
            IN  IF ~q.ok THEN q
                ELSE render_value_template([q EXCEPT !.buf = r.buf], ctx, "Block", elem,
                        "list_item", q.buf)

Render(r, ctx, kind, elem) ==
    CASE kind = "Block" -> RenderBlock(r, ctx, elem)
      [] kind = "OutputValue" -> RenderOutputValue(r, ctx, elem)
      [] kind = "CellOutput" -> RenderCellOutput(r, ctx, elem)
      [] kind = "Inline" ->
            CASE elem.t = "Text" -> Wrote(r, "Inline", elem, <<Written(elem.s)>>)
              [] elem.t \in {"Emphasis", "Strong", "Strikethrough", "Image", "Link"} ->
                    RenderInline(r, ctx, elem)
              [] elem.t = "Code" ->
                    render_value_template(r, ctx, "Inline", elem, "inline_code", elem.s)
              [] elem.t = "SoftBreak" ->
                    render_basic_template(r, ctx, "Inline", elem, "soft_break")
              [] elem.t = "HardBreak" ->
                    render_basic_template(r, ctx, "Inline", elem, "hard_break")
              [] elem.t = "Rule" ->
                    render_basic_template(r, ctx, "Inline", elem, "horizontal_rule")
              [] elem.t = "Html" -> Wrote(r, "Inline", elem, <<Written(elem.s)>>)
              [] elem.t = "Math" ->
                    RenderTemplate(r, ctx, "Inline", elem, "math", "Builtin",
                        [display_mode |-> elem.display_block,
                         trailing_space |-> elem.trailing_space,
                         value |-> elem.source])
              [] elem.t = "Shortcode" -> RenderShortcodeTemplate(r, ctx, elem)

RenderAll(r, ctx, kind, v, k) ==
    IF k > Len(v) \/ ~r.ok THEN r
    ELSE RenderAll(Render(r, ctx, kind, v[k]), ctx, kind, v, k + 1)

\* The inlines of the blocks handed to the renderers: without shortcodes, and
\* with a shortcode whose call fits its schema or does not.
PlainInlines ==
    { <<X>>,
      <<Emphasis(<<X>>)>>,
      <<Strong(<<Strikethrough(<<X>>)>>)>>,
      <<Code(<<"c">>), SoftBreak, HardBreak, Rule>>,
      <<Image(<<"u">>, <<"a">>, <<X>>)>>,
      <<Link(<<"u">>, <<"t">>, <<X>>)>>,
      <<Html(<<"<", "b", ">">>)>>,
      <<Math(<<"x">>, FALSE, TRUE)>> }

ValidCallDef ==
    ShortcodeBase([name |-> "fig", id |-> "f1", block |-> FALSE,
                   parameters |-> <<Positional("x")>>], FirstNum)
InvalidCallDef ==
    ShortcodeBase([name |-> "fig", id |-> NoId, block |-> FALSE,
                   parameters |-> <<>>], FirstNum)

ShortcodeInlines ==
    { <<InlineShortcode(ValidCallDef)>>,
      <<InlineShortcode(InvalidCallDef)>>,
      <<Emphasis(<<InlineShortcode(InvalidCallDef)>>), X>> }

\* The outputs of the code blocks.
OutputLists ==
    { <<>>,
      <<Stream(<<"o">>, "StdOut"), Stream(<<"e">>, "StdErr"), Error(<<"v">>)>>,
      <<Data(<<OutputPlain(<< <<"a">>, <<"b">> >>), OutputImage(<<"i">>),
               OutputSvg(<<"s">>)>>)>>,
      <<Data(<<OutputJson(<<"j">>), OutputHtml(<<"h">>), OutputJavascript(<<"js">>)>>)>> }

\* The blocks a markdown document and any document is made of.
PlainBlocks ==
    { Paragraph(i) : i \in PlainInlines }
        \cup { Heading(2, <<X>>), Plain(<<X>>), BlockQuote(<<X>>),
               List(NoIdx, <<FlatItem>>), List(3, <<FlatItem, FlatItem>>) }
        \cup { CodeBlock(<<"c">>, NoReference, CodeAttributes(TRUE, FALSE), o) :
                  o \in OutputLists }

GenBlocks == PlainBlocks \cup { Paragraph(i) : i \in ShortcodeInlines }

\* The metadata, variables and id maps of the documents.
DocumentFields ==
    { [metadata |-> Metadata(FALSE, FALSE, FALSE), variables |-> DefaultVariables,
       ids |-> <<>>, id_map |-> <<>>],
      [metadata |-> Metadata(TRUE, TRUE, TRUE), variables |-> "v1",
       ids |-> <<"f1">>, id_map |-> <<"f1">>] }

\* The documents handed to a renderer of a format.  (The match of
\* renderers/markdown.rs has no arm for Inline::Shortcode.)
Documents(fmt) ==
    { Document(c, d.metadata, d.variables, d.ids, d.id_map) :
        c \in UNION { [1..n -> IF fmt = "markdown" THEN PlainBlocks ELSE GenBlocks] :
                        n \in 0..MaxGenBlocks },
        d \in DocumentFields }

\* The document returned with the variables of a new document.
ReturnedDocumentDefault(content, doc) ==
    Document(content, doc.metadata, DefaultVariables, doc.ids, doc.id_map)

\* Ok(Document { content, metadata: doc.metadata.clone(), variables:
\* doc.variables.clone(), ids: doc.ids.clone(), id_map: doc.id_map.clone() })
ReturnedDocument(content, doc) ==
    Document(content, doc.metadata, doc.variables, doc.ids, doc.id_map)

\* GenericRenderer::render_doc: the content is rendered to a buffer, and the
\* document returned holds the text of the buffer (String::from_utf8 of the
\* bytes written gives back the text written); an error of the render is the
\* error of render_doc.
render_doc ==
    /\ gen_op = "none"
    /\ gen_fmt \in TemplatedFormats
    /\ LET ctx == [format |-> gen_fmt, doc |-> gen_doc]
           r == RenderAll(RenderState(<<>>, COUNTER, <<>>), ctx, "Block",
                          gen_doc.content, 1)
       IN  /\ gen_ret' = IF r.ok THEN Returned(ReturnedDocument(r.buf, gen_doc))
                         ELSE Failed(r.err)
           /\ gen_log' = r.log
           /\ COUNTER' = r.counter
    /\ gen_op' = "render_doc"
    /\ UNCHANGED <<gen_doc, gen_fmt, ids>>
    /\ UNCHANGED <<scanVars, docVars, mdVars, elVars, nbVars, paVars, coVars>>

\* MarkdownRenderer::render
MarkdownRender ==
    /\ gen_op = "none"
    /\ gen_fmt = "markdown"
    /\ LET content == BlocksToMarkdown(gen_doc.content,
                          ToMarkdownContext(NoIdx, 0, <<>>, <<>>), <<>>, 1).s
       IN  gen_ret' = Returned(ReturnedDocument(content, gen_doc))
    /\ gen_op' = "render"
    /\ UNCHANGED <<gen_doc, gen_fmt, gen_log>>
    /\ UNCHANGED <<scanVars, idVars, docVars, mdVars, elVars, nbVars, paVars, coVars>>

\* The functions handed to Document::map.
MapFunctions == {"len", "rev"}
Apply(f, content) ==
    IF f = "len" THEN Len(content)
    ELSE [k \in 1..Len(content) |-> content[Len(content) + 1 - k]]

\* Document::map: content is f(self.content), every other field is the field
\* of self.
DocumentMap(f) ==
    /\ gen_op = "none"
    /\ gen_ret' = Returned(Document(Apply(f, gen_doc.content), gen_doc.metadata,
                                    gen_doc.variables, gen_doc.ids, gen_doc.id_map))
    /\ gen_op' = "map"
    /\ UNCHANGED <<gen_doc, gen_fmt, gen_log>>
    /\ UNCHANGED <<scanVars, idVars, docVars, mdVars, elVars, nbVars, paVars, coVars>>

-----------------------------------------------------------------------------
(* Pipeline::process_all of src/pipeline/mod.rs: one task per document of   *)
(* the project, run by the workers of the thread pool in any order and      *)
(* interleaved in any way.                                                  *)

\* The most documents of a project.
MaxProject == 3

\* DocumentDescriptor.id of the documents of the projects.
DocumentIds == {"a", "b"}

\* What process_document returns for a document: Ok(Some(document)),
\* Ok(None), or an error.
Outcomes == {"some", "none", "err"}

\* Option<Document<RenderResult>>
NoDocument == [some |-> FALSE]
SomeDocument(id) == [some |-> TRUE, doc |-> id]

\* An error that is dropped.
PushNothing(errors, e) == errors

\* errs_guard.push(e)
Push(errors, e) == Append(errors, e)

\* The closure of map, on document i, up to the match: process_document has
\* returned, with the context of the document added to an error.
ProcessDocument(i) ==
    /\ processed = None
    /\ task_pc[i] = "start"
    /\ IF project[i].outcome = "err"
       THEN /\ task_pc' = [task_pc EXCEPT ![i] = "lock"]
            /\ UNCHANGED task_res
       ELSE /\ task_pc' = [task_pc EXCEPT ![i] = "done"]
            /\ task_res' = [task_res EXCEPT ![i] =
                              IF project[i].outcome = "some"
                              THEN SomeDocument(project[i].id) ELSE NoDocument]
    /\ UNCHANGED <<project, errs, errs_guard, processed>>
    /\ UNCHANGED <<scanVars, idVars, docVars, mdVars, elVars, nbVars, genVars, coVars>>

\* let mut errs_guard = errs.lock().unwrap(): the task waits until no other
\* task holds the lock.
LockErrs(i) ==
    /\ task_pc[i] = "lock"
    /\ errs_guard = 0
    /\ errs_guard' = i
    /\ task_pc' = [task_pc EXCEPT ![i] = "push"]
    /\ UNCHANGED <<project, task_res, errs, processed>>
    /\ UNCHANGED <<scanVars, idVars, docVars, mdVars, elVars, nbVars, genVars, coVars>>

\* errs_guard.push(e); None: the error is pushed, the guard is dropped at the
\* end of the arm, and the content of the document is None.
PushErr(i) ==
    /\ task_pc[i] = "push"
    /\ errs_guard = i
    /\ errs' = Push(errs, [doc |-> project[i].id])
    /\ errs_guard' = 0
    /\ task_res' = [task_res EXCEPT ![i] = NoDocument]
    /\ task_pc' = [task_pc EXCEPT ![i] = "done"]
    /\ UNCHANGED <<project, processed>>
    /\ UNCHANGED <<scanVars, idVars, docVars, mdVars, elVars, nbVars, genVars, coVars>>

\* .collect::<Vec<...>>(): every task is over; the descriptors are collected
\* in the order of the documents they were made of, and process_all returns
\* them with the errors.
Collect ==
    /\ processed = None
    /\ \A i \in 1..Len(project) : task_pc[i] = "done"
    /\ processed' = Returned(
          [res |-> [i \in 1..Len(project) |->
                       [id |-> project[i].id, content |-> task_res[i]]],
           errs |-> errs])
    /\ UNCHANGED <<project, task_pc, task_res, errs, errs_guard>>
    /\ UNCHANGED <<scanVars, idVars, docVars, mdVars, elVars, nbVars, genVars, coVars>>

-----------------------------------------------------------------------------
(* The cell-output preprocessor: CellVisitor and CellProcessor of           *)
(* crates/cdoc/src/preprocessors/cell_outputs.rs.  It works on the tree of  *)
(* cdoc_parser, in which a code block is an inline.                         *)

\* The longest list of inlines of a document handed to the preprocessor.
MaxInlines == 3

\* Option<String>::Some.
Some(v) == [kind |-> "Some", v |-> v]

\* Inline::CodeBlock(CodeBlock { source, .. }): the hash and the meta of the
\* source; the meta is a list of pairs of a key and a value.
InlineCodeBlock(hash, meta) == [t |-> "CodeBlock", hash |-> hash, meta |-> meta]

\* source.meta.get(key).cloned()
MetaGet(meta, key) ==
    IF \E k \in 1..Len(meta) : meta[k][1] = key
    THEN Some(meta[CHOOSE k \in 1..Len(meta) : meta[k][1] = key][2])
    ELSE None

\* Parameter { key: Some(key), value: Value::String(value), .. } and
\* Inline::Command(Command { function, label, parameters, body: None,
\* global_idx: 0, .. }).
Parameter(key, value) == [key |-> key, value |-> value]

Command(function, label, parameters) ==
    [t |-> "Command", function |-> function, label |-> label,
     parameters |-> parameters, body |-> None, global_idx |-> 0]

\* Outval and Image.
OutvalText(s) == [kind |-> "Text", s |-> s]
OutvalImage(img) == [kind |-> "Image", img |-> img]
OutvalJson == [kind |-> "Json"]
OutvalHtml == [kind |-> "Html"]
OutvalJavascript == [kind |-> "Javascript"]
OutvalError == [kind |-> "Error"]
Png(s) == [kind |-> "Png", s |-> s]
Svg(s) == [kind |-> "Svg", s |-> s]

\* CodeOutput { values } and Document<Ast> { meta, content, code_outputs }.
CodeOutput(values) == [values |-> values]

DocumentAst(cell_outputs, content_blocks, code_outputs) ==
    [meta |-> [cell_outputs |-> cell_outputs],
     content |-> [blocks |-> content_blocks],
     code_outputs |-> code_outputs]

\* No code block has recorded outputs.
NoOutputs == [h \in {} |-> CodeOutput(<<>>)]

NoInput == DocumentAst(FALSE, <<>>, NoOutputs)

\* Vec::insert(index, element).
InsertAt(v, index, element) ==
    SubSeq(v, 1, index) \o <<element>> \o SubSeq(v, index + 1, Len(v))

\* Every command inserted right behind the code block, in front of the ones
\* inserted before it.
InsertIndexBehindCode(i, inserted) == i + 1

\* i + offset + 1
InsertIndex(i, inserted) == i + inserted + 1

\* The command of Outval::Text(s).
OutputTextCommand(s) == Command("output_text", None, <<Parameter("value", s)>>)

\* The command of Outval::Image(img): the meta of the source, then the image.
FigureCommand(source, img) ==
    LET params == [k \in 1..Len(source.meta) |->
                      Parameter(source.meta[k][1], source.meta[k][2])]
        image == IF img.kind = "Png" THEN Parameter("base64", img.s)
                 ELSE Parameter("svg", img.s)
    IN  Command("figure", MetaGet(source.meta, "id"), Append(params, image))

\* for output in &outputs.values, from the k-th on: st holds the inlines and
\* the offset.
RECURSIVE ForOutput(_, _, _, _, _)
ForOutput(st, i, source, values, k) ==
    IF k > Len(values) THEN st
    ELSE LET output == values[k]
             st1 == CASE output.kind = "Text" ->
                            [inlines |-> InsertAt(st.inlines, InsertIndex(i, st.offset),
                                                  OutputTextCommand(output.s)),
                             offset |-> st.offset + 1]
                       [] output.kind = "Image" ->
                            [inlines |-> InsertAt(st.inlines, InsertIndex(i, st.offset),
                                                  FigureCommand(source, output.img)),
                             offset |-> st.offset + 1]
                       [] OTHER -> st
         IN  ForOutput(st1, i, source, values, k + 1)

\* for (i, inline) in inlines.clone().into_iter().enumerate(), from i on.
RECURSIVE ForInline(_, _, _, _)
ForInline(st, original, outputs, i) ==
    IF i >= Len(original) THEN st
    ELSE LET inline == original[i + 1]
             st1 == IF inline.t = "CodeBlock" /\ inline.hash \in DOMAIN outputs
                    THEN ForOutput(st, i, inline, outputs[inline.hash].values, 1)
                    ELSE st
         IN  ForInline(st1, original, outputs, i + 1)

\* CellVisitor::visit_vec_inline, and the walk of AstVisitor that calls it
\* for the inlines of every inline and of every block.
RECURSIVE visit_vec_inline(_, _)
walk_inline(inline, outputs) ==
    IF inline.t \in {"Emphasis", "Strong"}
    THEN [inline EXCEPT !.inner = visit_vec_inline(@, outputs)]
    ELSE inline

walk_vec_inline(inlines, outputs) ==
    [k \in 1..Len(inlines) |-> walk_inline(inlines[k], outputs)]

visit_vec_inline(inlines, outputs) ==
    walk_vec_inline(ForInline([inlines |-> inlines, offset |-> 0],
                              inlines, outputs, 0).inlines,
                    outputs)

walk_ast(content_blocks, outputs) ==
    [k \in 1..Len(content_blocks) |->
        [content_blocks[k] EXCEPT !.inner = visit_vec_inline(@, outputs)]]

\* CellProcessor::process.
process ==
    /\ co_ret = None
    /\ co_ret' = Returned(IF co_input.meta.cell_outputs
                          THEN [co_input EXCEPT !.content.blocks =
                                    walk_ast(@, co_input.code_outputs)]
                          ELSE co_input)
    /\ UNCHANGED co_input
    /\ UNCHANGED <<scanVars, idVars, docVars, mdVars, elVars, nbVars, genVars, paVars>>

\* The documents handed to the preprocessor: code blocks with the hashes 1
\* and 2, alone and inside emphasis, and what was recorded for the hashes.
Meta0 == <<>>
Meta1 == << <<"id", "f1">> >>

CoInlines ==
    { X, InlineCodeBlock(1, Meta0), InlineCodeBlock(2, Meta1),
      Emphasis(<<InlineCodeBlock(1, Meta0)>>),
      Strong(<<X, InlineCodeBlock(2, Meta1), X>>) }

CoInlineLists == UNION { [1..n -> CoInlines] : n \in 0..MaxInlines }

CodeOutputs ==
    { NoOutputs,
      [h \in {1} |-> CodeOutput(<<OutvalText("a")>>)],
      [h \in {1, 2} |->
          IF h = 1 THEN CodeOutput(<<OutvalText("a"), OutvalImage(Png("p"))>>)
          ELSE CodeOutput(<<OutvalJson, OutvalImage(Svg("s")), OutvalText("b")>>)],
      [h \in {1, 2} |->
          IF h = 1 THEN CodeOutput(<<OutvalHtml, OutvalJavascript, OutvalError>>)
          ELSE CodeOutput(<<OutvalText("b"), OutvalText("c")>>)],
      [h \in {1, 2} |->
          IF h = 1 THEN CodeOutput(<<>>)
          ELSE CodeOutput(<<OutvalImage(Png("p")), OutvalError, OutvalText("b")>>)] }

CoDocuments ==
    { DocumentAst(b, <<Paragraph(l)>>, o) :
        b \in BOOLEAN, l \in CoInlineLists, o \in CodeOutputs }
    \cup
    { DocumentAst(b, <<Paragraph(l[1]), Paragraph(l[2])>>, o) :
        b \in BOOLEAN,
        l \in { m \in CoInlineLists : Len(m) <= 1 }
                \X { m \in CoInlineLists : Len(m) <= 1 },
        o \in CodeOutputs }

-----------------------------------------------------------------------------
(* The specifications: the scanner run on a text, the render threads       *)
(* drawing ids, and a document built and then rendered any number of times. *)

\* The texts of up to MaxTokens - 2 tokens, and longer texts in which a shortcode of one
\* kind follows an opening delimiter of the other: two braces or one or two
\* opening tags, then a whole shortcode of the other kind, then nothing or
\* closing delimiters; with or without a code span in front.
ShortTexts ==
    { Concat(ts) : ts \in UNION { [1..n -> Tokens] : n \in 0..(MaxTokens - 2) } }

OPEN_A == <<"{", "%", " ", "a", " ", "%", "}">>
CLOSE_A == <<"{", "%", " ", "e", "n", "d", "_", "a", " ", "%", "}">>
CLOSE == <<"{", "%", " ", "e", "n", "d", "%", "}">>

LongTexts ==
    { front \o pre \o mid \o post :
        front \in { <<>>, TICK \o LL \o RR \o TICK },
        pre \in { LL, LL \o LL },
        mid \in { OPEN_A \o CLOSE_A, OPEN_A \o <<"x">> \o CLOSE },
        post \in { <<>>, RR, RR \o RR } }
    \cup
    { front \o pre \o mid \o post :
        front \in { <<>>, TICK \o LL \o RR \o TICK },
        pre \in { OPEN_A, OPEN_A \o OPEN_A },
        mid \in { LL \o RR, LL \o <<"x">> \o RR },
        post \in { <<>>, CLOSE_A, CLOSE } }

ScanInit ==
    /\ text \in Texts
    /\ pc = "blocks"
    /\ res = <<>>
    /\ fab_offset = 0
    /\ offset = 0
    /\ start = 0
    /\ end = 0
    /\ level = 0
    /\ cur_start = 0
    /\ end_block = 0
    /\ result = None
    /\ found = <<>>
    /\ COUNTER = 1
    /\ ids = [t \in Threads |-> <<>>]
    /\ counters = [n \in Names |-> FirstNum]
    /\ ast = <<>>
    /\ parsed = FALSE
    /\ rfmt = "none"
    /\ rstatus = "idle"
    /\ ridx = 0
    /\ rerr = NoErr
    /\ buf = <<>>
    /\ tmpl_calls = <<>>
    /\ md_doc = <<>>
    /\ md_pos = 0
    /\ list_idx = NoIdx
    /\ list_lvl = 0
    /\ md_out = <<>>
    /\ md_lists = <<>>
    /\ md_items = <<>>
    /\ elements = <<>>
    /\ el_pos = 0
    /\ converted = <<>>
    /\ blocks = <<>>
    /\ cells = <<>>
    /\ nb_pos = 0
    /\ nb_num = FoldInit
    /\ nb_acc = <<>>
    /\ nb_elements = None
    /\ gen_doc = Document(<<>>, Metadata(FALSE, FALSE, FALSE), DefaultVariables, <<>>, <<>>)
    /\ gen_fmt = "none"
    /\ gen_op = "none"
    /\ gen_ret = None
    /\ gen_log = <<>>
    /\ project = <<>>
    /\ task_pc = <<>>
    /\ task_res = <<>>
    /\ errs = <<>>
    /\ errs_guard = 0
    /\ processed = None
    /\ co_input = NoInput
    /\ co_ret = None

ScanNext ==
    \/ FindAllBlocksStep
    \/ FindShortcode
    \/ InlineStep
    \/ InlineReturn
    \/ BlockStep
    \/ BlockReturn
    \/ SkipCodeSpan
    \/ ReportShortcode

SpecScan == ScanInit /\ [][ScanNext]_vars

FairInit ==
    /\ text \in ShortTexts \cup LongTexts
    /\ pc = "blocks"
    /\ res = <<>>
    /\ fab_offset = 0
    /\ offset = 0
    /\ start = 0
    /\ end = 0
    /\ level = 0
    /\ cur_start = 0
    /\ end_block = 0
    /\ result = None
    /\ found = <<>>
    /\ COUNTER = 1
    /\ ids = [t \in Threads |-> <<>>]
    /\ counters = [n \in Names |-> FirstNum]
    /\ ast = <<>>
    /\ parsed = FALSE
    /\ rfmt = "none"
    /\ rstatus = "idle"
    /\ ridx = 0
    /\ rerr = NoErr
    /\ buf = <<>>
    /\ tmpl_calls = <<>>
    /\ md_doc = <<>>
    /\ md_pos = 0
    /\ list_idx = NoIdx
    /\ list_lvl = 0
    /\ md_out = <<>>
    /\ md_lists = <<>>
    /\ md_items = <<>>
    /\ elements = <<>>
    /\ el_pos = 0
    /\ converted = <<>>
    /\ blocks = <<>>
    /\ cells = <<>>
    /\ nb_pos = 0
    /\ nb_num = FoldInit
    /\ nb_acc = <<>>
    /\ nb_elements = None
    /\ gen_doc = Document(<<>>, Metadata(FALSE, FALSE, FALSE), DefaultVariables, <<>>, <<>>)
    /\ gen_fmt = "none"
    /\ gen_op = "none"
    /\ gen_ret = None
    /\ gen_log = <<>>
    /\ project = <<>>
    /\ task_pc = <<>>
    /\ task_res = <<>>
    /\ errs = <<>>
    /\ errs_guard = 0
    /\ processed = None
    /\ co_input = NoInput
    /\ co_ret = None

\* The scanner is sequential code: a step that can be taken is taken.
SpecScanFair == FairInit /\ [][ScanNext]_vars /\ WF_vars(ScanNext)

IdInit ==
    /\ text = <<>>
    /\ pc = "idle"
    /\ res = <<>>
    /\ fab_offset = 0
    /\ offset = 0
    /\ start = 0
    /\ end = 0
    /\ level = 0
    /\ cur_start = 0
    /\ end_block = 0
    /\ result = None
    /\ found = <<>>
    /\ COUNTER = 1
    /\ ids = [t \in Threads |-> <<>>]
    /\ counters = [n \in Names |-> FirstNum]
    /\ ast = <<>>
    /\ parsed = FALSE
    /\ rfmt = "none"
    /\ rstatus = "idle"
    /\ ridx = 0
    /\ rerr = NoErr
    /\ buf = <<>>
    /\ tmpl_calls = <<>>
    /\ md_doc = <<>>
    /\ md_pos = 0
    /\ list_idx = NoIdx
    /\ list_lvl = 0
    /\ md_out = <<>>
    /\ md_lists = <<>>
    /\ md_items = <<>>
    /\ elements = <<>>
    /\ el_pos = 0
    /\ converted = <<>>
    /\ blocks = <<>>
    /\ cells = <<>>
    /\ nb_pos = 0
    /\ nb_num = FoldInit
    /\ nb_acc = <<>>
    /\ nb_elements = None
    /\ gen_doc = Document(<<>>, Metadata(FALSE, FALSE, FALSE), DefaultVariables, <<>>, <<>>)
    /\ gen_fmt = "none"
    /\ gen_op = "none"
    /\ gen_ret = None
    /\ gen_log = <<>>
    /\ project = <<>>
    /\ task_pc = <<>>
    /\ task_res = <<>>
    /\ errs = <<>>
    /\ errs_guard = 0
    /\ processed = None
    /\ co_input = NoInput
    /\ co_ret = None

IdNext == \E t \in Threads : get_id(t)

SpecIds == IdInit /\ [][IdNext]_vars

DocInit ==
    /\ text = <<>>
    /\ pc = "idle"
    /\ res = <<>>
    /\ fab_offset = 0
    /\ offset = 0
    /\ start = 0
    /\ end = 0
    /\ level = 0
    /\ cur_start = 0
    /\ end_block = 0
    /\ result = None
    /\ found = <<>>
    /\ COUNTER = 1
    /\ ids = [t \in Threads |-> <<>>]
    /\ counters = [n \in Names |-> FirstNum]
    /\ ast = <<>>
    /\ parsed = FALSE
    /\ rfmt = "none"
    /\ rstatus = "idle"
    /\ ridx = 0
    /\ rerr = NoErr
    /\ buf = <<>>
    /\ tmpl_calls = <<>>
    /\ md_doc = <<>>
    /\ md_pos = 0
    /\ list_idx = NoIdx
    /\ list_lvl = 0
    /\ md_out = <<>>
    /\ md_lists = <<>>
    /\ md_items = <<>>
    /\ elements = <<>>
    /\ el_pos = 0
    /\ converted = <<>>
    /\ blocks = <<>>
    /\ cells = <<>>
    /\ nb_pos = 0
    /\ nb_num = FoldInit
    /\ nb_acc = <<>>
    /\ nb_elements = None
    /\ gen_doc = Document(<<>>, Metadata(FALSE, FALSE, FALSE), DefaultVariables, <<>>, <<>>)
    /\ gen_fmt = "none"
    /\ gen_op = "none"
    /\ gen_ret = None
    /\ gen_log = <<>>
    /\ project = <<>>
    /\ task_pc = <<>>
    /\ task_res = <<>>
    /\ errs = <<>>
    /\ errs_guard = 0
    /\ processed = None
    /\ co_input = NoInput
    /\ co_ret = None

DocNext ==
    \/ \E call \in Calls : ParseShortcode(call)
    \/ FinishParse
    \/ \E fmt \in Formats : StartRender(fmt)
    \/ RenderShortcode
    \/ FinishRender

SpecDoc == DocInit /\ [][DocNext]_vars

MdInit ==
    /\ text = <<>>
    /\ pc = "idle"
    /\ res = <<>>
    /\ fab_offset = 0
    /\ offset = 0
    /\ start = 0
    /\ end = 0
    /\ level = 0
    /\ cur_start = 0
    /\ end_block = 0
    /\ result = None
    /\ found = <<>>
    /\ COUNTER = 1
    /\ ids = [t \in Threads |-> <<>>]
    /\ counters = [n \in Names |-> FirstNum]
    /\ ast = <<>>
    /\ parsed = FALSE
    /\ rfmt = "none"
    /\ rstatus = "idle"
    /\ ridx = 0
    /\ rerr = NoErr
    /\ buf = <<>>
    /\ tmpl_calls = <<>>
    /\ md_doc \in MdDocs
    /\ md_pos = 0
    /\ list_idx = NoIdx
    /\ list_lvl = 0
    /\ md_out = <<>>
    /\ md_lists = <<>>
    /\ md_items = <<>>
    /\ elements = <<>>
    /\ el_pos = 0
    /\ converted = <<>>
    /\ blocks = <<>>
    /\ cells = <<>>
    /\ nb_pos = 0
    /\ nb_num = FoldInit
    /\ nb_acc = <<>>
    /\ nb_elements = None
    /\ gen_doc = Document(<<>>, Metadata(FALSE, FALSE, FALSE), DefaultVariables, <<>>, <<>>)
    /\ gen_fmt = "none"
    /\ gen_op = "none"
    /\ gen_ret = None
    /\ gen_log = <<>>
    /\ project = <<>>
    /\ task_pc = <<>>
    /\ task_res = <<>>
    /\ errs = <<>>
    /\ errs_guard = 0
    /\ processed = None
    /\ co_input = NoInput
    /\ co_ret = None

MdNext == ToMarkdownBlock

SpecMd == MdInit /\ [][MdNext]_vars

ElInit ==
    /\ text = <<>>
    /\ pc = "idle"
    /\ res = <<>>
    /\ fab_offset = 0
    /\ offset = 0
    /\ start = 0
    /\ end = 0
    /\ level = 0
    /\ cur_start = 0
    /\ end_block = 0
    /\ result = None
    /\ found = <<>>
    /\ COUNTER = 1
    /\ ids = [t \in Threads |-> <<>>]
    /\ counters = [n \in Names |-> FirstNum]
    /\ ast = <<>>
    /\ parsed = FALSE
    /\ rfmt = "none"
    /\ rstatus = "idle"
    /\ ridx = 0
    /\ rerr = NoErr
    /\ buf = <<>>
    /\ tmpl_calls = <<>>
    /\ md_doc = <<>>
    /\ md_pos = 0
    /\ list_idx = NoIdx
    /\ list_lvl = 0
    /\ md_out = <<>>
    /\ md_lists = <<>>
    /\ md_items = <<>>
    /\ elements \in UNION { [1..n -> Elements] : n \in 0..MaxElems }
    /\ el_pos = 0
    /\ converted = <<>>
    /\ blocks = <<>>
    /\ cells = <<>>
    /\ nb_pos = 0
    /\ nb_num = FoldInit
    /\ nb_acc = <<>>
    /\ nb_elements = None
    /\ gen_doc = Document(<<>>, Metadata(FALSE, FALSE, FALSE), DefaultVariables, <<>>, <<>>)
    /\ gen_fmt = "none"
    /\ gen_op = "none"
    /\ gen_ret = None
    /\ gen_log = <<>>
    /\ project = <<>>
    /\ task_pc = <<>>
    /\ task_res = <<>>
    /\ errs = <<>>
    /\ errs_guard = 0
    /\ processed = None
    /\ co_input = NoInput
    /\ co_ret = None

ElNext == AstFromElement

SpecEl == ElInit /\ [][ElNext]_vars

NbInit ==
    /\ text = <<>>
    /\ pc = "idle"
    /\ res = <<>>
    /\ fab_offset = 0
    /\ offset = 0
    /\ start = 0
    /\ end = 0
    /\ level = 0
    /\ cur_start = 0
    /\ end_block = 0
    /\ result = None
    /\ found = <<>>
    /\ COUNTER = 1
    /\ ids = [t \in Threads |-> <<>>]
    /\ counters = [n \in Names |-> FirstNum]
    /\ ast = <<>>
    /\ parsed = FALSE
    /\ rfmt = "none"
    /\ rstatus = "idle"
    /\ ridx = 0
    /\ rerr = NoErr
    /\ buf = <<>>
    /\ tmpl_calls = <<>>
    /\ md_doc = <<>>
    /\ md_pos = 0
    /\ list_idx = NoIdx
    /\ list_lvl = 0
    /\ md_out = <<>>
    /\ md_lists = <<>>
    /\ md_items = <<>>
    /\ elements = <<>>
    /\ el_pos = 0
    /\ converted = <<>>
    /\ blocks = <<>>
    /\ cells \in UNION { [1..n -> Cells] : n \in 0..MaxCells }
    /\ nb_pos = 0
    /\ nb_num = FoldInit
    /\ nb_acc = <<>>
    /\ nb_elements = None
    /\ gen_doc = Document(<<>>, Metadata(FALSE, FALSE, FALSE), DefaultVariables, <<>>, <<>>)
    /\ gen_fmt = "none"
    /\ gen_op = "none"
    /\ gen_ret = None
    /\ gen_log = <<>>
    /\ project = <<>>
    /\ task_pc = <<>>
    /\ task_res = <<>>
    /\ errs = <<>>
    /\ errs_guard = 0
    /\ processed = None
    /\ co_input = NoInput
    /\ co_ret = None

NbNext == FoldCell \/ CollectElements

SpecNb == NbInit /\ [][NbNext]_vars

GenInit ==
    /\ text = <<>>
    /\ pc = "idle"
    /\ res = <<>>
    /\ fab_offset = 0
    /\ offset = 0
    /\ start = 0
    /\ end = 0
    /\ level = 0
    /\ cur_start = 0
    /\ end_block = 0
    /\ result = None
    /\ found = <<>>
    /\ COUNTER = 1
    /\ ids = [t \in Threads |-> <<>>]
    /\ counters = [n \in Names |-> FirstNum]
    /\ ast = <<>>
    /\ parsed = FALSE
    /\ rfmt = "none"
    /\ rstatus = "idle"
    /\ ridx = 0
    /\ rerr = NoErr
    /\ buf = <<>>
    /\ tmpl_calls = <<>>
    /\ md_doc = <<>>
    /\ md_pos = 0
    /\ list_idx = NoIdx
    /\ list_lvl = 0
    /\ md_out = <<>>
    /\ md_lists = <<>>
    /\ md_items = <<>>
    /\ elements = <<>>
    /\ el_pos = 0
    /\ converted = <<>>
    /\ blocks = <<>>
    /\ cells = <<>>
    /\ nb_pos = 0
    /\ nb_num = FoldInit
    /\ nb_acc = <<>>
    /\ nb_elements = None
    /\ gen_fmt \in Formats
    /\ gen_doc \in Documents(gen_fmt)
    /\ gen_op = "none"
    /\ gen_ret = None
    /\ gen_log = <<>>
    /\ project = <<>>
    /\ task_pc = <<>>
    /\ task_res = <<>>
    /\ errs = <<>>
    /\ errs_guard = 0
    /\ processed = None
    /\ co_input = NoInput
    /\ co_ret = None

GenNext == render_doc \/ MarkdownRender \/ (\E f \in MapFunctions : DocumentMap(f))

SpecGen == GenInit /\ [][GenNext]_vars

PaInit ==
    /\ text = <<>>
    /\ pc = "idle"
    /\ res = <<>>
    /\ fab_offset = 0
    /\ offset = 0
    /\ start = 0
    /\ end = 0
    /\ level = 0
    /\ cur_start = 0
    /\ end_block = 0
    /\ result = None
    /\ found = <<>>
    /\ COUNTER = 1
    /\ ids = [t \in Threads |-> <<>>]
    /\ counters = [n \in Names |-> FirstNum]
    /\ ast = <<>>
    /\ parsed = FALSE
    /\ rfmt = "none"
    /\ rstatus = "idle"
    /\ ridx = 0
    /\ rerr = NoErr
    /\ buf = <<>>
    /\ tmpl_calls = <<>>
    /\ md_doc = <<>>
    /\ md_pos = 0
    /\ list_idx = NoIdx
    /\ list_lvl = 0
    /\ md_out = <<>>
    /\ md_lists = <<>>
    /\ md_items = <<>>
    /\ elements = <<>>
    /\ el_pos = 0
    /\ converted = <<>>
    /\ blocks = <<>>
    /\ cells = <<>>
    /\ nb_pos = 0
    /\ nb_num = FoldInit
    /\ nb_acc = <<>>
    /\ nb_elements = None
    /\ gen_doc = Document(<<>>, Metadata(FALSE, FALSE, FALSE), DefaultVariables, <<>>, <<>>)
    /\ gen_fmt = "none"
    /\ gen_op = "none"
    /\ gen_ret = None
    /\ gen_log = <<>>
    /\ project \in UNION { [1..n -> [id : DocumentIds, outcome : Outcomes]] :
                            n \in 0..MaxProject }
    /\ task_pc = [i \in 1..Len(project) |-> "start"]
    /\ task_res = [i \in 1..Len(project) |-> NoDocument]
    /\ errs = <<>>
    /\ errs_guard = 0
    /\ processed = None
    /\ co_input = NoInput
    /\ co_ret = None

PaNext ==
    \/ \E i \in 1..Len(project) : ProcessDocument(i)
    \/ \E i \in 1..Len(project) : LockErrs(i)
    \/ \E i \in 1..Len(project) : PushErr(i)
    \/ Collect

SpecAll == PaInit /\ [][PaNext]_vars

CoInit ==
    /\ text = <<>>
    /\ pc = "idle"
    /\ res = <<>>
    /\ fab_offset = 0
    /\ offset = 0
    /\ start = 0
    /\ end = 0
    /\ level = 0
    /\ cur_start = 0
    /\ end_block = 0
    /\ result = None
    /\ found = <<>>
    /\ COUNTER = 1
    /\ ids = [t \in Threads |-> <<>>]
    /\ counters = [n \in Names |-> FirstNum]
    /\ ast = <<>>
    /\ parsed = FALSE
    /\ rfmt = "none"
    /\ rstatus = "idle"
    /\ ridx = 0
    /\ rerr = NoErr
    /\ buf = <<>>
    /\ tmpl_calls = <<>>
    /\ md_doc = <<>>
    /\ md_pos = 0
    /\ list_idx = NoIdx
    /\ list_lvl = 0
    /\ md_out = <<>>
    /\ md_lists = <<>>
    /\ md_items = <<>>
    /\ elements = <<>>
    /\ el_pos = 0
    /\ converted = <<>>
    /\ blocks = <<>>
    /\ cells = <<>>
    /\ nb_pos = 0
    /\ nb_num = FoldInit
    /\ nb_acc = <<>>
    /\ nb_elements = None
    /\ gen_doc = Document(<<>>, Metadata(FALSE, FALSE, FALSE), DefaultVariables, <<>>, <<>>)
    /\ gen_fmt = "none"
    /\ gen_op = "none"
    /\ gen_ret = None
    /\ gen_log = <<>>
    /\ project = <<>>
    /\ task_pc = <<>>
    /\ task_res = <<>>
    /\ errs = <<>>
    /\ errs_guard = 0
    /\ processed = None
    /\ co_input \in CoDocuments
    /\ co_ret = None

CoNext == process

SpecCo == CoInit /\ [][CoNext]_vars

-----------------------------------------------------------------------------
(* What the scanner is meant to find, read off the text alone. *)

\* find_shortcode opens an inline / a block shortcode on s.
FirstIsInline(s) ==
    /\ Find(s, LL, 0) # NoIdx
    /\ Find(s, LP, 0) = NoIdx \/ Find(s, LL, 0) < Find(s, LP, 0)

FirstIsBlock(s) ==
    /\ Find(s, LP, 0) # NoIdx
    /\ Find(s, LL, 0) = NoIdx \/ Find(s, LP, 0) < Find(s, LL, 0)

\* The }} that balances a {{ : from offset p at nesting level lvl, every {{
\* counts +1 and every }} counts -1; NoIdx when the text ends first.
RECURSIVE BalancingClose(_, _, _)
BalancingClose(s, p, lvl) ==
    IF p + 2 > Len(s) THEN NoIdx
    ELSE IF MatchAt(s, LL, p) THEN BalancingClose(s, p + 2, lvl + 1)
    ELSE IF MatchAt(s, RR, p)
         THEN IF lvl = 1 THEN p ELSE BalancingClose(s, p + 2, lvl - 1)
    ELSE BalancingClose(s, p + 1, lvl)

ExpectedInline(s) ==
    LET st == Find(s, LL, 0)
        e == BalancingClose(s, st + 2, 1)
    IN  IF e = NoIdx THEN None ELSE InlineIdx(st, e)

\* The {% end that closes a block: from offset p at nesting level lvl, every
\* {% end counts -1 and every other {% counts +1.
RECURSIVE BalancingEnd(_, _, _)
BalancingEnd(s, p, lvl) ==
    IF p + 2 > Len(s) THEN NoIdx
    ELSE IF MatchAt(s, END_KW, p)
         THEN IF lvl = 1 THEN p ELSE BalancingEnd(s, p + 6, lvl - 1)
    ELSE IF MatchAt(s, LP, p) THEN BalancingEnd(s, p + 2, lvl + 1)
    ELSE BalancingEnd(s, p + 1, lvl)

ExpectedBlock(s) ==
    LET st == Find(s, LP, 0)
        de == Find(s, PR, st)
        eb == IF de = NoIdx THEN NoIdx ELSE BalancingEnd(s, de + 2, 1)
        ee == IF eb = NoIdx THEN NoIdx ELSE Find(s, PR, eb + 6)
    IN  IF ee = NoIdx THEN None ELSE BlockIdx(st, de, eb, ee)

\* The nesting depth at the end of s, counting tags from offset p at depth d;
\* -1 when a closing tag has no block to close.
RECURSIVE TagDepth(_, _, _)
TagDepth(s, p, d) ==
    IF p + 2 > Len(s) THEN d
    ELSE IF MatchAt(s, END_KW, p)
         THEN IF d = 0 THEN -1 ELSE TagDepth(s, p + 6, d - 1)
    ELSE IF MatchAt(s, LP, p) THEN TagDepth(s, p + 2, d + 1)
    ELSE TagDepth(s, p + 1, d)

\* Every {% has its %} before the next {% .
TagsClosed(s) ==
    \A p \in 0..Len(s) :
        MatchAt(s, LP, p) =>
            LET c == Find(s, PR, p + 2) IN
            /\ c # NoIdx
            /\ \A q \in (p + 1)..c : ~MatchAt(s, LP, q)

\* The block tags of s are properly nested: every tag is complete, every
\* closing tag closes an open block and no block stays open.
ProperlyNested(s) == TagsClosed(s) /\ TagDepth(s, 0, 0) = 0

-----------------------------------------------------------------------------
(* Claims about the scanner. *)

\* C1: on every text whose first shortcode delimiter is {% and whose block
\* tags are properly nested, find_shortcode returns the block whose def spans
\* the outer opening tag and whose end spans the outer closing tag.
C1_BalancedBlockNesting ==
    (pc = "done" /\ FirstIsBlock(rest) /\ ProperlyNested(rest))
        => result = ExpectedBlock(rest)

\* C2: on every text whose first shortcode delimiter is {{ and has a
\* balancing }} (every later {{ is +1, every }} is -1, from level 1),
\* find_shortcode returns Inline(start, end) with end that balancing }},
\* whatever the number of bytes between two delimiters.  (That it returns
\* None when no }} balances is part of C3.)
C2_BalancedInline ==
    (pc = "done" /\ FirstIsInline(rest) /\ ExpectedInline(rest) # None)
        => result = ExpectedInline(rest)

\* C3: on every text with an unmatched shortcode delimiter find_shortcode
\* returns None; it never aborts.
C3_UnmatchedIsNone ==
    pc = "done" =>
        /\ result # Panic
        /\ (FirstIsInline(rest) /\ ExpectedInline(rest) = None) => result = None
        /\ (FirstIsBlock(rest) /\ ExpectedBlock(rest) = None) => result = None

\* The backticks of s, and s has no two backticks in a row: its code spans
\* are then the stretches from an odd backtick to the next backtick.
Ticks(s) == { p \in 0..(Len(s) - 1) : s[p + 1] = "~" }
SingleTicks(s) == \A p \in Ticks(s) : p + 1 \notin Ticks(s)
InBackticks(s, p) ==
    /\ Cardinality({ q \in Ticks(s) : q < p }) % 2 = 1
    /\ \E q \in Ticks(s) : q > p

\* The shortcode delimiters of s.
Delimiters(s) ==
    { p \in 0..Len(s) : \E d \in {LL, RR, LP, PR} : MatchAt(s, d, p) }

\* C4: no shortcode reported for a text opens inside a literal code span:
\* neither inside a span find_all_blocks returned, nor, in a text of single
\* backticks, between an opening backtick and its closing one; a text whose
\* delimiters all lie inside code spans has no shortcode reported.
C4_CodeSpanImmunity ==
    /\ \A i \in 1..Len(found) :
           /\ SpanHolding(ShortcodeStart(found[i])) = {}
           /\ SingleTicks(text) => ~InBackticks(text, ShortcodeStart(found[i]))
    /\ (pc = "done" /\ result = None /\ SingleTicks(text)
            /\ \A p \in Delimiters(text) : InBackticks(text, p))
        => found = <<>>

\* C4 witness: a text with a shortcode in backticks was scanned to its end,
\* the scan skipped a code span and reported nothing.
C4_Witness ==
    /\ pc = "done"
    /\ result = None
    /\ offset > 0
    /\ found = <<>>
    /\ SingleTicks(text)
    /\ \E p \in Delimiters(text) : MatchAt(text, LL, p) /\ InBackticks(text, p)
    /\ \A p \in Delimiters(text) : InBackticks(text, p)

-----------------------------------------------------------------------------
(* Claims about the id counter. *)

AllIds == { <<t, i>> : t \in Threads, i \in 1..MaxIds }
Issued == { c \in AllIds : c[2] <= Len(ids[c[1]]) }

\* C5: the values get_id returned, to whatever threads and in whatever
\* interleaving, are pairwise distinct, and the values returned to one thread
\* are strictly increasing.
C5_IdsDistinct ==
    /\ \A a, b \in Issued : a # b => ids[a[1]][a[2]] # ids[b[1]][b[2]]
    /\ \A t \in Threads : \A i, j \in 1..Len(ids[t]) : i < j => ids[t][i] < ids[t][j]

\* C5 witness: two threads drew ids in turn, one of them around the other.
C5_Witness ==
    \E t, u \in Threads :
        /\ t # u
        /\ Len(ids[t]) >= 2
        /\ Len(ids[u]) >= 2
        /\ ids[t][1] < ids[u][1]
        /\ ids[u][1] < ids[t][2]
        /\ ids[t][2] < ids[u][2]

-----------------------------------------------------------------------------
(* Claims about ordinals and shortcode rendering. *)

\* The occurrences of the name of shortcode i up to and including i.
SameNameUpTo(i) == { j \in 1..i : ast[j].name = ast[i].name }

\* C6: every shortcode receives the running count of its name in document
\* order: the nums of one name are 1, 2, 3, ... in document order, hence
\* strictly increasing and duplicate-free.
C6_OrdinalAssignment ==
    /\ \A i \in 1..Len(ast) : ast[i].num = Cardinality(SameNameUpTo(i))
    /\ \A i, j \in 1..Len(ast) :
           (i < j /\ ast[i].name = ast[j].name) => ast[i].num < ast[j].num

\* C6 witness: the document fig, fig, table, fig with nums 1, 2, 1, 3.
C6_Witness ==
    /\ Len(ast) = 4
    /\ [i \in 1..4 |-> ast[i].name] = <<"fig", "fig", "table", "fig">>
    /\ [i \in 1..4 |-> ast[i].num] = <<1, 2, 1, 3>>

UnknownKeywords(def) ==
    { def.parameters[j].key : j \in { j \in 1..Len(def.parameters) :
          /\ def.parameters[j].kw
          /\ \A i \in 1..Len(Schema(def.name)) :
                 Schema(def.name)[i].name # def.parameters[j].key } }

MissingRequired(def) ==
    { Schema(def.name)[i].name : i \in { i \in 1..Len(Schema(def.name)) :
          /\ ~Schema(def.name)[i].optional
          /\ i > Cardinality({ j \in 1..Len(def.parameters) : ~def.parameters[j].kw })
          /\ \A j \in 1..Len(def.parameters) :
                 ~(def.parameters[j].kw
                   /\ def.parameters[j].key = Schema(def.name)[i].name) } }

ValidCall(def) == UnknownKeywords(def) = {} /\ MissingRequired(def) = {}

\* C8: a render call of GenericRenderer that reaches a shortcode with an
\* undeclared keyword argument or without a required parameter returns an
\* error naming that argument (an undeclared keyword if the call supplies
\* one), renders no template for the shortcode and writes nothing for it.
C8_ArgumentValidation ==
    rfmt \in TemplatedFormats =>
        /\ \A k \in 1..Len(tmpl_calls) : ValidCall(ast[tmpl_calls[k].idx])
        /\ Len(buf) = Len(tmpl_calls)
        /\ \A k \in 1..Len(buf) : ValidCall(ast[buf[k][3]])
        /\ rstatus = "ok" => \A i \in 1..Len(ast) : ValidCall(ast[i])
        /\ rstatus = "err" =>
               LET def == ast[ridx + 1] IN
               /\ ~ValidCall(def)
               /\ UnknownKeywords(def) # {} =>
                      rerr.kind = "unknown" /\ rerr.name \in UnknownKeywords(def)
               /\ UnknownKeywords(def) = {} =>
                      rerr.kind = "missing" /\ rerr.name \in MissingRequired(def)
               /\ \A k \in 1..Len(tmpl_calls) : tmpl_calls[k].idx # ridx + 1
               /\ \A k \in 1..Len(buf) : buf[k][3] # ridx + 1

\* C8 witness: a templated render call has failed on a call that gives the
\* undeclared keyword bogus, after rendering a valid shortcode.
C8_Witness ==
    /\ rfmt \in TemplatedFormats
    /\ rstatus = "err"
    /\ ridx = 1
    /\ rerr = UnknownArg("bogus")
    /\ MissingRequired(ast[2]) = {}
    /\ Len(buf) = 1

\* C9: when a shortcode fails argument validation the render call is not
\* aborted: render_doc still returns the rendered document, with every
\* shortcode whose call is valid rendered.
C9_SchemaErrorsAreLocal ==
    (rfmt \in TemplatedFormats /\ rstatus \in {"ok", "err"}) =>
        /\ rstatus = "ok"
        /\ \A i \in 1..Len(ast) :
               ValidCall(ast[i]) => \E k \in 1..Len(buf) : buf[k][3] = i

\* C10: in every format, a template is rendered for a shortcode only after
\* its arguments were resolved against the schema: never for a call with an
\* undeclared keyword argument or without a required parameter.
C10_ValidationInEveryFormat ==
    \A k \in 1..Len(tmpl_calls) : ValidCall(ast[tmpl_calls[k].idx])

\* The name an argument of a call is bound to: its key, or for the i-th
\* argument, a positional one, the name of the i-th declared parameter.
BoundName(def, j) ==
    IF def.parameters[j].kw THEN def.parameters[j].key
    ELSE Schema(def.name)[j].name

-----------------------------------------------------------------------------
(* Claims about the markdown renderer. *)

\* The children of a block, and the block at a path of the document.
Children(b) ==
    IF b.t = "List" THEN b.items ELSE IF b.t = "ListItem" THEN b.inner ELSE <<>>

RECURSIVE NodeAt(_, _)
NodeAt(v, path) ==
    IF Len(path) = 1 THEN v[path[1]]
    ELSE NodeAt(Children(v[path[1]]), Tail(path))

Prefix(path, n) == SubSeq(path, 1, n)

\* The list an item is an item of, and the nesting depth of the item: the
\* number of lists it lies in.
ParentList(path) == NodeAt(md_doc, Prefix(path, Len(path) - 1))

NestingDepth(path) ==
    Cardinality({ n \in 1..(Len(path) - 1) : NodeAt(md_doc, Prefix(path, n)).t = "List" })

\* The number of tabs a text starts with.
LeadingTabs(s) ==
    Min({ n \in 0..Len(s) : n = Len(s) \/ s[n + 1] # "\t" })

\* C12: list_idx and list_lvl are, after every list, what they were before
\* it; hence the k-th item of an ordered list is rendered with the ordinal k
\* whether or not an earlier item holds a list, and every item of an
\* unordered list without one.
C12_ListStateScoped ==
    /\ \A i \in 1..Len(md_lists) : md_lists[i].after = md_lists[i].before
    /\ \A i \in 1..Len(md_items) :
           LET path == md_items[i].path IN
           md_items[i].idx = IF ParentList(path).idx = NoIdx THEN NoIdx
                             ELSE path[Len(path)]

\* The item rendered at a path.
ItemAt(path) == md_items[CHOOSE i \in 1..Len(md_items) : md_items[i].path = path]

\* The item at path is an item of an ordered list that lies in an item of an
\* ordered list.
NestedOrdered(path) ==
    /\ Len(path) >= 4
    /\ ParentList(path).idx # NoIdx
    /\ NodeAt(md_doc, Prefix(path, Len(path) - 2)).t = "ListItem"
    /\ NodeAt(md_doc, Prefix(path, Len(path) - 3)).t = "List"
    /\ NodeAt(md_doc, Prefix(path, Len(path) - 3)).idx # NoIdx

\* C13: the first item of an ordered list nested in an item of an ordered
\* list is rendered with the ordinal 1, and every item of the inner list
\* starts with one tab more than the item the list lies in: with as many
\* tabs as its nesting depth less one.
C13_NestedListNumbering ==
    \A i \in 1..Len(md_items) :
        LET path == md_items[i].path IN
        NestedOrdered(path) =>
            /\ path[Len(path)] = 1 => md_items[i].idx = 1
            /\ LeadingTabs(md_items[i].s) = NestingDepth(path) - 1
            /\ LeadingTabs(md_items[i].s)
                  = LeadingTabs(ItemAt(Prefix(path, Len(path) - 2)).s) + 1

\* C13 witness: the second item of an ordered list holds an ordered list
\* whose first item, numbered 1 behind one tab, itself holds an ordered list
\* whose item is numbered 1 behind two tabs.
C13_Witness ==
    /\ md_pos = 1
    /\ md_doc[1].t = "List"
    /\ md_doc[1].idx = 1
    /\ \E i, j \in 1..Len(md_items) :
           /\ md_items[i].path = <<1, 2, 2, 1>>
           /\ md_items[i].idx = 1
           /\ LeadingTabs(md_items[i].s) = 1
           /\ md_items[j].path = <<1, 2, 2, 1, 2, 1>>
           /\ md_items[j].idx = 1
           /\ LeadingTabs(md_items[j].s) = 2

\* MarkdownRenderer::render of a document.
RenderMarkdown(doc) ==
    BlocksToMarkdown(doc, ToMarkdownContext(NoIdx, 0, <<>>, <<>>), <<>>, 1).s

\* C14: the tree re-parsed from the markdown rendered for a tree without raw
\* HTML and math is that tree again, up to what the model keeps of a tree
\* (heading levels, list order, emphasis nesting, block quotes, breaks, link
\* text, code blocks).  The re-parsed tree is a function of the markdown, so
\* no other tree is rendered to the same markdown.
C14_RoundTrip ==
    md_pos = Len(md_doc) =>
        \A d \in LeafDocs : RenderMarkdown(d) = md_out => d = md_doc

-----------------------------------------------------------------------------
(* More claims about the scanner. *)

\* The span the detection rule gives for an input: from the first backtick
\* to the end of the closing delimiter that follows it, the closing delimiter
\* being three backticks if the first backtick opens three backticks and one
\* backtick otherwise; NoSpan without a backtick or without the delimiter.
ClaimedSpan(input) ==
    LET st == Find(input, TICK, 0) IN
    IF st = NoIdx THEN NoSpan
    ELSE LET delim == IF MatchAt(input, TICK3, st) THEN TICK3 ELSE TICK
             e == Find(input, delim, st + 1)
         IN  IF e = NoIdx THEN NoSpan ELSE <<st, e + Len(delim)>>

\* The offset at which the i-th call of find_next_block started.
CallOffset(i) == IF i = 1 THEN 0 ELSE res[i - 1][2]

\* C15: every span find_next_block returned is the span of the detection
\* rule on its input, and where it returned None the rule gives no span: in
\* particular a text that ends with its three opening backticks has no span.
C15_CodeSpanDetection ==
    /\ \A i \in 1..Len(res) :
           LET c == ClaimedSpan(Suffix(text, CallOffset(i))) IN
           /\ c # NoSpan
           /\ res[i] = <<CallOffset(i) + c[1], CallOffset(i) + c[2]>>
    /\ pc # "blocks" => ClaimedSpan(Suffix(text, fab_offset)) = NoSpan

\* The spans are in document order, none empty, none overlapping another,
\* all within the text.
SpansInOrder ==
    /\ \A i \in 1..Len(res) : 0 <= res[i][1] /\ res[i][1] < res[i][2]
                              /\ res[i][2] <= Len(text)
    /\ \A i \in 2..Len(res) : res[i - 1][2] <= res[i][1]

\* The text after the last span returned.
AfterLastSpan == Suffix(text, CallOffset(Len(res) + 1))

\* C16: the spans are in order and do not overlap, and when find_all_blocks
\* has returned no backtick is left after the last span.
C16_UntilNoBacktick ==
    /\ SpansInOrder
    /\ pc # "blocks" => Find(AfterLastSpan, TICK, 0) = NoIdx

\* C17: find_shortcode opens an inline shortcode at the first {{ only if no
\* {% occurs before it, a block shortcode at the first {% only if no {{
\* occurs before it, and returns None on a text with neither.
C17_KindSelection ==
    /\ pc = "inline" => FirstIsInline(rest) /\ start = Find(rest, LL, 0)
    /\ pc = "block" => FirstIsBlock(rest) /\ start = Find(rest, LP, 0)
    /\ pc = "done" =>
           /\ result.kind = "Inline" =>
                  FirstIsInline(rest) /\ result.start = Find(rest, LL, 0)
           /\ result.kind = "Block" =>
                  FirstIsBlock(rest) /\ result.def[1] = Find(rest, LP, 0)
           /\ (Find(rest, LL, 0) = NoIdx /\ Find(rest, LP, 0) = NoIdx)
                  => result = None
           /\ FirstIsInline(rest) => result.kind # "Block"
           /\ FirstIsBlock(rest) => result.kind # "Inline"

\* C17 witness: a block shortcode was found in a text that holds a {{ behind
\* the first {%.
C17_Witness ==
    /\ pc = "done"
    /\ result.kind = "Block"
    /\ Find(rest, LL, 0) > Find(rest, LP, 0)

\* The closing tags of s that carry a name, and s with the name of the tags
\* at the offsets P replaced by another name of the same length.
NamedEndTags(s) ==
    { p \in 0..Len(s) : MatchAt(s, <<"{", "%", " ", "e", "n", "d", "_", "a">>, p) }

Renamed(s, P) ==
    [i \in 1..Len(s) |-> IF (i - 8) \in P THEN "b" ELSE s[i]]

-----------------------------------------------------------------------------
(* Claims about the conversion of elements. *)

\* C19: every Code element converted gave exactly one CodeBlock, with the
\* text of the element as source, editable, not folded, without reference,
\* and with the outputs supplied, in their order, or none if none were.
C19_CodeElement ==
    \A i \in 1..Len(converted) :
        elements[i].t = "Code" =>
            /\ Len(converted[i]) = 1
            /\ converted[i][1].t = "CodeBlock"
            /\ converted[i][1].source = elements[i].content
            /\ converted[i][1].attr.editable = TRUE
            /\ converted[i][1].attr.fold = FALSE
            /\ converted[i][1].reference = NoReference
            /\ elements[i].output.some =>
                   converted[i][1].outputs = elements[i].output.v
            /\ ~elements[i].output.some => converted[i][1].outputs = <<>>

\* C19 witness: a Code element with two outputs and one with none were
\* converted.
C19_Witness ==
    \E i, j \in 1..Len(converted) :
        /\ elements[i].t = "Code"
        /\ elements[i].output = SomeOutput(<<"o1", "o2">>)
        /\ converted[i][1].outputs = <<"o1", "o2">>
        /\ elements[j].t = "Code"
        /\ elements[j].output = NoOutput
        /\ converted[j][1].outputs = <<>>

\* The elements converted so far that are Markdown or Code elements, and the
\* blocks of a list of elements one after the other.
VisibleElements ==
    SelectSeq(SubSeq(elements, 1, el_pos), LAMBDA e : e.t \in {"Markdown", "Code"})

RECURSIVE BlocksOf(_)
BlocksOf(es) ==
    IF es = <<>> THEN <<>> ELSE ElementToBlocks(Head(es)) \o BlocksOf(Tail(es))

\* C20: every Raw or Default element converted gave no block, and the Ast
\* collected is the blocks of the Markdown and Code elements converted, in
\* the order of the elements; every element is converted.
C20_RawAndDefaultInvisible ==
    /\ \A i \in 1..Len(converted) :
           elements[i].t \in {"Raw", "Default"} => converted[i] = <<>>
    /\ Len(converted) = el_pos
    /\ blocks = BlocksOf(VisibleElements)

\* C20 witness: a Raw element between a Markdown element of two blocks and a
\* Code element was converted.
C20_Witness ==
    /\ el_pos = 3
    /\ elements[1].t = "Markdown"
    /\ elements[2].t = "Raw"
    /\ elements[3].t = "Code"
    /\ Len(blocks) = 3
    /\ blocks[3].t = "CodeBlock"

-----------------------------------------------------------------------------
(* Claims about the conversion of a notebook. *)

\* The positions of the code cells of the notebook, and the code cell that
\* precedes the one at position i (0 if there is none).
CodePositions == { i \in 1..Len(cells) : cells[i].t = "Code" }

PrevCode(i) ==
    IF \E j \in CodePositions : j < i
    THEN CHOOSE j \in CodePositions : j < i /\ \A k \in CodePositions : k < i => k <= j
    ELSE 0

\* C21: the elements returned are as many as the cells and in their order
\* (the i-th element is of the kind of the i-th cell and has its source);
\* every code element but the first has the cell_number of the code element
\* before it plus 1; a markdown or raw element carries no number, and the
\* number kept by the fold is the same after a markdown or raw cell as
\* before it.
C21_CodeCellNumbering ==
    /\ \A k \in 1..nb_pos :
           cells[k].t # "Code" =>
               nb_acc[k][1] = (IF k = 1 THEN FoldInit ELSE nb_acc[k - 1][1])
    /\ nb_elements # None =>
           /\ Len(nb_elements.v) = Len(cells)
           /\ \A i \in 1..Len(cells) :
                  /\ nb_elements.v[i].t = cells[i].t
                  /\ nb_elements.v[i].content = cells[i].source
                  /\ cells[i].t # "Code" =>
                         DOMAIN nb_elements.v[i] = {"t", "content"}
                  /\ (cells[i].t = "Code" /\ PrevCode(i) # 0) =>
                         nb_elements.v[i].cell_number =
                             nb_elements.v[PrevCode(i)].cell_number + 1

\* C21 witness: a notebook with a markdown and a raw cell between two code
\* cells was converted.
C21_Witness ==
    /\ nb_elements # None
    /\ Len(cells) = 4
    /\ cells[1].t = "Code"
    /\ cells[2].t = "Markdown"
    /\ cells[3].t = "Raw"
    /\ cells[4].t = "Code"
    /\ nb_elements.v[4].cell_number = nb_elements.v[1].cell_number + 1

\* The number of code cells among the first i cells.
CodeCellsUpTo(i) == Cardinality({ j \in CodePositions : j <= i })

\* C30: the k-th code cell of the notebook is given cell_number k + 1,
\* whatever the markdown and raw cells before it: the first code cell is
\* numbered 2 and no code element is numbered 1.
C30_FirstCodeCellNumber ==
    nb_elements # None =>
        \A i \in CodePositions :
            /\ nb_elements.v[i].cell_number = CodeCellsUpTo(i) + 1
            /\ nb_elements.v[i].cell_number # 1
            /\ PrevCode(i) = 0 => nb_elements.v[i].cell_number = 2

\* C30 witness: the first code cell of a converted notebook follows a
\* markdown cell and is numbered 2, and the second is numbered 3.
C30_Witness ==
    /\ nb_elements # None
    /\ Len(cells) >= 3
    /\ cells[1].t = "Markdown"
    /\ cells[2].t = "Code"
    /\ cells[3].t = "Code"
    /\ nb_elements.v[2].cell_number = 2
    /\ nb_elements.v[3].cell_number = 3

-----------------------------------------------------------------------------
(* Claims about the renderers and the document they return. *)

\* C22: the document a successful render_doc, MarkdownRenderer::render or
\* Document::map returned has the metadata, the variables and the id maps of
\* the document it was given, so that nothing but the content differs; and no
\* step changes the document given.
C22_MetadataUntouched ==
    /\ [](gen_ret.kind = "Returned" =>
            /\ gen_ret.v.metadata = gen_doc.metadata
            /\ gen_ret.v.variables = gen_doc.variables
            /\ gen_ret.v.ids = gen_doc.ids
            /\ gen_ret.v.id_map = gen_doc.id_map
            /\ DOMAIN gen_ret.v = DOMAIN gen_doc)
    /\ [][gen_doc' = gen_doc]_vars

\* C22 witness: render_doc returned a document for a document of two blocks
\* with variables and id maps that are not those of a new document, and its
\* content is not the content given.
C22_Witness ==
    /\ gen_op = "render_doc"
    /\ gen_ret.kind = "Returned"
    /\ Len(gen_doc.content) = 2
    /\ gen_doc.variables # DefaultVariables
    /\ gen_doc.ids # <<>>
    /\ gen_ret.v.content # gen_doc.content
    /\ gen_ret.v.variables = gen_doc.variables

\* C23: every node the templated renderer met, of Inline, Block, OutputValue
\* and CellOutput, had its arm write the output of a template and nothing
\* else: no arm wrote a string itself, and none wrote nothing.
C23_FullyDelegated ==
    \A i \in 1..Len(gen_log) :
        /\ gen_log[i].own # <<>>
        /\ \A k \in 1..Len(gen_log[i].own) : ~gen_log[i].own[k].raw

-----------------------------------------------------------------------------
(* Claims about the processing of a project. *)

\* The documents of the project whose processing fails, and the number of
\* errors collected for document i.
FailedDocuments == { i \in 1..Len(project) : project[i].outcome = "err" }

ErrorsOf(collected, i) ==
    Cardinality({ k \in 1..Len(collected) : collected[k].doc = project[i].id })

\* C24: in whatever order the tasks ran, what process_all returned has one
\* descriptor per document, in the order of the documents; the content of a
\* document whose processing failed is None; every document whose processing
\* gave a document or nothing has just that as content; and the errors are as
\* many as the failed documents, one for each of them.
C24_PartialFailure ==
    processed # None =>
        LET items == processed.v.res
            collected == processed.v.errs
        IN  /\ Len(items) = Len(project)
            /\ \A i \in 1..Len(project) :
                   /\ items[i].id = project[i].id
                   /\ project[i].outcome = "err" => items[i].content = NoDocument
                   /\ project[i].outcome = "some" =>
                          items[i].content = SomeDocument(project[i].id)
                   /\ project[i].outcome = "none" => items[i].content = NoDocument
            /\ Len(collected) = Cardinality(FailedDocuments)
            /\ \A k \in 1..Len(collected) :
                   \E i \in FailedDocuments : collected[k].doc = project[i].id
            /\ \A i \in FailedDocuments :
                   ErrorsOf(collected, i) =
                       Cardinality({ j \in FailedDocuments : project[j].id = project[i].id })

\* C24 witness: of three documents the first and the third failed and the
\* second gave a document; the error of the third was pushed before the error
\* of the first.
C24_Witness ==
    /\ processed # None
    /\ Len(project) = 3
    /\ project[1] = [id |-> "a", outcome |-> "err"]
    /\ project[2] = [id |-> "b", outcome |-> "some"]
    /\ project[3] = [id |-> "b", outcome |-> "err"]
    /\ processed.v.errs = << [doc |-> "b"], [doc |-> "a"] >>
    /\ processed.v.res[2].content = SomeDocument("b")
    /\ processed.v.res[1].content = NoDocument

-----------------------------------------------------------------------------
(* Claims about the shape of what the scanner returns, its termination and  *)
(* the shortcode it settles on.                                             *)

\* C25: an Inline(s, e) returned by find_shortcode has {{ at s and }} at e,
\* with s + 2 <= e; a Block returned has {% at its def start a, the first %}
\* after a at b, a {% end at c with b < c, the first %} at or after c + 6 at
\* d, a < b < c < d, and d + 2 within the text.
C25_WellFormedResults ==
    pc = "done" =>
        /\ result.kind = "Inline" =>
               /\ MatchAt(rest, <<"{", "{">>, result.start)
               /\ MatchAt(rest, <<"}", "}">>, result.end)
               /\ result.start + 2 <= result.end
        /\ result.kind = "Block" =>
               LET a == result.def[1]
                   b == result.def[2]
                   c == result.end[1]
                   d == result.end[2]
               IN  /\ MatchAt(rest, <<"{", "%">>, a)
                   /\ b = Find(rest, <<"%", "}">>, a + 1)
                   /\ MatchAt(rest, <<"{", "%", " ", "e", "n", "d">>, c)
                   /\ b < c
                   /\ d = Find(rest, <<"%", "}">>, c + 6)
                   /\ a < b /\ b < c /\ c < d
                   /\ d + 2 <= Len(rest)

\* C25 witness: a block shortcode with a body was found behind a byte of
\* text.
C25_Witness ==
    /\ pc = "done"
    /\ result.kind = "Block"
    /\ result.def[1] > 0
    /\ result.end[1] > result.def[2] + 2

\* C26: an iteration of the loop of extract_inline or of extract_block that
\* goes on to another leaves cur_start greater than it was, and an iteration
\* of the loop of find_all_blocks leaves the offset of the rest greater than
\* it was; neither passes the end of the text by more than a byte; and the
\* scan of a text comes to its end, so that each of the three loops ends
\* every time it is entered.
C26_ScannerTermination ==
    /\ [][/\ (pc = "inline" /\ pc' = "inline") => cur_start' > cur_start
          /\ (pc = "block" /\ pc' = "block") => cur_start' > cur_start
          /\ (pc = "blocks" /\ pc' = "blocks") => fab_offset' > fab_offset]_vars
    /\ [](/\ pc \in {"inline", "block"} => cur_start <= Len(rest) + 1
          /\ fab_offset <= Len(text))
    /\ <>[](pc = "done" /\ result.kind \in {"None", "Panic"})

\* C26 witness: the loop of extract_inline is at the head of its third
\* iteration or a later one, the cursor behind where it began.
C26_Witness ==
    /\ pc = "inline"
    /\ level = 1
    /\ cur_start >= start + 6

\* C27: when the text holds both a {{ and a {% and the earlier of the two
\* opens a shortcode that is not balanced, find_shortcode returns None, also
\* when the later one opens a well-formed shortcode of the other kind.
C27_NoFallback ==
    pc = "done" =>
        LET start_inline == Find(rest, LL, 0)
            start_block == Find(rest, LP, 0)
        IN  (start_inline # NoIdx /\ start_block # NoIdx) =>
                IF start_inline < start_block
                THEN (ExpectedInline(rest) = None /\ ExpectedBlock(rest) # None)
                         => result = None
                ELSE (ExpectedBlock(rest) = None /\ ExpectedInline(rest) # None)
                         => result = None

\* The part of C27 that holds: what is returned is never a shortcode of the
\* kind whose opening delimiter comes second.
C27_NeverTheOtherKind ==
    pc = "done" =>
        LET start_inline == Find(rest, LL, 0)
            start_block == Find(rest, LP, 0)
        IN  (start_inline # NoIdx /\ start_block # NoIdx) =>
                IF start_inline < start_block
                THEN result.kind # "Block"
                ELSE result.kind # "Inline"

-----------------------------------------------------------------------------
(* The ordinals of list items against the start number of the list. *)

\* A list lies in the block, at any depth.
RECURSIVE HasList(_)
HasList(b) ==
    \/ b.t = "List"
    \/ \E j \in 1..Len(Children(b)) : HasList(Children(b)[j])

\* No item before the item at path, in the list it is an item of, holds a
\* list.
NoListBefore(path) ==
    \A j \in 1..(path[Len(path)] - 1) : ~HasList(ParentList(path).items[j])

\* C28: the k-th item of an ordered list, no earlier item of which holds a
\* list, is handed to the list_item template with the idx k whatever the
\* start number of the list is, and every item of an unordered list is
\* handed to it without an idx.
C28_OrdinalsIgnoreStart ==
    \A i \in 1..Len(md_items) :
        LET path == md_items[i].path IN
        /\ (ParentList(path).idx # NoIdx /\ NoListBefore(path))
               => md_items[i].idx = path[Len(path)]
        /\ ParentList(path).idx = NoIdx => md_items[i].idx = NoIdx

\* The part of C28 that holds: the same, for the items no earlier item of
\* whose list holds a list, in ordered and unordered lists alike.
C28_OrdinalsWithoutNestedLists ==
    \A i \in 1..Len(md_items) :
        LET path == md_items[i].path IN
        NoListBefore(path) =>
            md_items[i].idx = IF ParentList(path).idx = NoIdx THEN NoIdx
                              ELSE path[Len(path)]

\* An ordered list from 3 was rendered with its three items numbered 1, 2
\* and 3, the last of them holding a list.
C28_StartIgnored ==
    /\ md_pos = 1
    /\ md_doc[1].t = "List"
    /\ md_doc[1].idx = 3
    /\ Len(md_doc[1].items) = 3
    /\ HasList(md_doc[1].items[3])
    /\ \A k \in 1..3 : ItemAt(<<1, k>>).idx = k

-----------------------------------------------------------------------------
(* Claims about the cell-output preprocessor. *)

\* The outputs of a code block a command is inserted for, in their order,
\* and their number over the inlines before the i-th.
InsertedFor(inline, outputs) ==
    IF inline.t = "CodeBlock" /\ inline.hash \in DOMAIN outputs
    THEN SelectSeq(outputs[inline.hash].values,
                   LAMBDA o : o.kind \in {"Text", "Image"})
    ELSE <<>>

RECURSIVE InsertedBefore(_, _, _)
InsertedBefore(original, outputs, i) ==
    IF i <= 1 THEN 0
    ELSE InsertedBefore(original, outputs, i - 1)
            + Len(InsertedFor(original[i - 1], outputs))

\* The command is the one of the output.
IsCommandOf(inline, o) ==
    /\ inline.t = "Command"
    /\ IF o.kind = "Text"
       THEN /\ inline.function = "output_text"
            /\ inline.parameters = <<Parameter("value", o.s)>>
       ELSE /\ inline.function = "figure"
            /\ Len(inline.parameters) >= 1
            /\ inline.parameters[Len(inline.parameters)]
                  = Parameter(IF o.img.kind = "Png" THEN "base64" ELSE "svg", o.img.s)

\* The list after is the list before with, behind each code block, the
\* commands of its outputs; the same holds of the lists inside its inlines.
RECURSIVE InsertedBehindCode(_, _, _)
InsertedBehindCode(before, after, outputs) ==
    /\ Len(after) = Len(before) + InsertedBefore(before, outputs, Len(before) + 1)
    /\ \A i \in 1..Len(before) :
           LET p == i + InsertedBefore(before, outputs, i)
               f == InsertedFor(before[i], outputs)
           IN  /\ IF before[i].t \in {"Emphasis", "Strong"}
                  THEN /\ after[p].t = before[i].t
                       /\ InsertedBehindCode(before[i].inner, after[p].inner, outputs)
                  ELSE after[p] = before[i]
               /\ \A k \in 1..Len(f) : IsCommandOf(after[p + k], f[k])

\* C29: with cell_outputs enabled, every list of inlines of the document
\* process returns is the list it was handed with, right behind each code
\* block that has recorded outputs, one output_text command per Text output
\* and one figure command per Image output, in the order of the outputs, and
\* nothing for the other outputs; the inlines handed in keep their order and
\* the list is longer by the number of Text and Image outputs.  With
\* cell_outputs disabled the document returned is the document handed in.
C29_CellOutputInsertion ==
    co_ret.kind = "Returned" =>
        IF co_input.meta.cell_outputs
        THEN /\ co_ret.v.meta = co_input.meta
             /\ co_ret.v.code_outputs = co_input.code_outputs
             /\ Len(co_ret.v.content.blocks) = Len(co_input.content.blocks)
             /\ \A b \in 1..Len(co_input.content.blocks) :
                    /\ co_ret.v.content.blocks[b].t = co_input.content.blocks[b].t
                    /\ InsertedBehindCode(co_input.content.blocks[b].inner,
                                          co_ret.v.content.blocks[b].inner,
                                          co_input.code_outputs)
        ELSE co_ret.v = co_input

\* C29 witness: a code block with a Text and an Image output, a code block
\* inside strong text and the same code block behind it, with a Json, an
\* Image and a Text output, were handed in with cell_outputs enabled; seven
\* inlines came back, the commands behind their code blocks.
C29_Witness ==
    /\ co_ret.kind = "Returned"
    /\ co_input.meta.cell_outputs
    /\ co_input.content.blocks
          = << Paragraph(<< InlineCodeBlock(1, Meta0),
                            Strong(<<X, InlineCodeBlock(2, Meta1), X>>),
                            InlineCodeBlock(2, Meta1) >>) >>
    /\ 2 \in DOMAIN co_input.code_outputs
    /\ co_input.code_outputs[1].values = <<OutvalText("a"), OutvalImage(Png("p"))>>
    /\ co_input.code_outputs[2].values
          = <<OutvalJson, OutvalImage(Svg("s")), OutvalText("b")>>
    /\ LET after == co_ret.v.content.blocks[1].inner IN
       /\ Len(after) = 7
       /\ after[2] = Command("output_text", None, <<Parameter("value", "a")>>)
       /\ after[3] = Command("figure", None, <<Parameter("base64", "p")>>)
       /\ Len(after[4].inner) = 5
       /\ after[4].inner[3].function = "figure"
       /\ after[4].inner[4].function = "output_text"
       /\ after[6] = Command("figure", Some("f1"),
                             <<Parameter("id", "f1"), Parameter("svg", "s")>>)
       /\ after[7] = Command("output_text", None, <<Parameter("value", "b")>>)

\* C29 witness, cell_outputs disabled: a document with a code block that has
\* a Text output came back as it was.
C29_WitnessDisabled ==
    /\ co_ret.kind = "Returned"
    /\ ~co_input.meta.cell_outputs
    /\ co_input.content.blocks = << Paragraph(<< InlineCodeBlock(1, Meta0) >>) >>
    /\ 1 \in DOMAIN co_input.code_outputs
    /\ co_input.code_outputs[1].values = <<OutvalText("a")>>
    /\ co_ret.v = co_input

====
